---------------------------- MODULE Spec2Model ----------------------------
(***************************************************************************)
(* A model of gotion's MCP backend, its OAuth flow and its configuration.  *)
(*                                                                         *)
(*   Spec          the MCP client (internal/notion/mcp/client.go): one     *)
(*                 Client used sequentially by GetPage and Search, every   *)
(*                 sendRequest answered by an arbitrary server response.   *)
(*   SpecShared    one Client shared by several goroutines that call       *)
(*                 sendRequest, a step being one access to a shared field. *)
(*   SpecSSE       parseSSEResponse as a pure function of an event stream. *)
(*   SpecCallback  the authentication flow of the MCP backend (package     *)
(*                 cmd): discovery, registration, PKCE, the CallbackServer *)
(*                 (package gotion) with its HTTP handlers running         *)
(*                 concurrently with the wait, the code exchange and the   *)
(*                 saving of the token.                                    *)
(*   SpecPKCE      the flow up to GeneratePKCE for the outputs of          *)
(*                 crypto/rand that the model draws.                       *)
(*   SpecConfig    config.Load over environments, config files and token   *)
(*                 files.                                                  *)
(*   SpecRefresh   the token refresh that precedes a command               *)
(*                 (PersistentPreRunE, refreshTokenIfNeeded).              *)
(*   SpecTool      callTool after its sendRequest: what it makes of the    *)
(*                 envelope's error member and of the tool result.         *)
(*   SpecStatus    one callTool of an initialized Client, answered under   *)
(*                 every HTTP status the model draws.                      *)
(*   SpecTraditional  the authentication flow of the API backend           *)
(*                 (runTraditionalAuth) with the --port values 0 and 8080. *)
(*   SpecGuards    an OAuthClient (package mcp) whose exported methods are *)
(*                 called in any order.                                    *)
(***************************************************************************)
EXTENDS Integers, Sequences, FiniteSets, TLC

VARIABLES
    \* ---- mcp.Client (client.go:24-30) and the goroutine that uses it
    requestID,      \* c.requestID, the atomic counter
    sessionID,      \* c.sessionID, "" while none was stored
    initialized,    \* c.initialized
    cpc,            \* position of the calling goroutine inside GetPage/Search
    tool,           \* tool name of the call in progress ("" when idle)
    wire,           \* history: the HTTP requests handed to httpClient.Do
    ret,            \* what the last sendRequest returned
    \* ---- parseSSEResponse as a function
    sseLines,       \* the response body, split into lines
    sseExpected,    \* expectedID
    sseOut,         \* the returned (envelope, error) pair
    \* ---- CallbackServer and the authentication flow around it
    afPc,           \* position of the main goroutine in runMCPAuth / runTraditionalAuth
    afErr,          \* the error the flow returned
    listener,       \* the listening socket: "none", "open", "closed"
    serving,        \* the goroutine of Start has entered server.Serve
    ctxDone,        \* the callbackTimeout context has expired
    sCode,          \* s.code
    sState,         \* s.state
    sErr,           \* s.err
    doneClosed,     \* the channel s.done is closed
    conns,          \* history: the requests accepted, each with its handler's position
    startRet,       \* what Start returned ("pending" before)
    closeErr,       \* what the deferred server.Close() returned ("none" before)
    \* ---- the process environment and the files under ~/.config/gotion
    env,            \* HOME and the GOTION_* / NOTION_TOKEN variables
    configFile,     \* config.toml
    tokenFile,      \* token.json
    cfgOut,         \* what config.Load returned
    \* ---- the pre-command token refresh (rootCmd.PersistentPreRunE)
    cmdName,        \* cmd.Name() of the command being run
    rfPc,           \* "prerun", "run" (the command's RunE) or "exit"
    rfRet,          \* the error PersistentPreRunE returned
    rfWhy,          \* the return statement refreshTokenIfNeeded left by
    rfOld,          \* token.json as LoadToken read it
    rfNeeds,        \* what tokenData.NeedsRefresh() answered, FALSE while not asked
    rfResp,         \* the token endpoint's answer to the refresh POST
    rfToken,        \* the access token the command ran with
    httpLog,        \* history: the HTTP requests issued by the OAuth client
    \* ---- OAuthClient (package mcp) and the random source it reads
    protectedResource,  \* c.protectedResource: its authorization servers, <<>> while nil
    authServer,     \* c.authServer
    clientReg,      \* c.clientReg
    pkce,           \* c.pkce
    random,         \* what crypto/rand delivers to this process
    \* ---- one mcp.Client shared by several goroutines
    gor,            \* per goroutine: its position in sendRequest and its locals
    issued,         \* history: the values c.requestID.Add(1) returned, in order
    \* ---- callTool after its sendRequest, as a function
    toolIn,         \* what sendRequest returned: the envelope's fields, or an error
    toolOut,        \* the (result, error) pair callTool returned
    \* ---- the auth command: its options and what the flow binds and shows
    opts,           \* authOpts: the flags --mcp and --port
    oauthCfg,       \* cfg of runTraditionalAuth: ClientID and ClientSecret
    boundPort,      \* server.Port(): the port of the listener, 0 while there is none
    authURL,        \* the authorization URL shown: its redirect_uri and its state
    \* ---- an OAuthClient (package mcp) whose methods a caller invokes in any order
    oaCall          \* the method called last, its error, and the methods that returned nil so far

mcpVars == <<requestID, sessionID, initialized, cpc, tool, wire, ret>>
sseVars == <<sseLines, sseExpected, sseOut>>
cbVars  == <<afPc, afErr, listener, serving, ctxDone, sCode, sState, sErr,
             doneClosed, conns, startRet, closeErr>>
fsVars  == <<env, configFile, tokenFile>>
cfgVars == <<cfgOut>>
rfVars  == <<cmdName, rfPc, rfRet, rfWhy, rfOld, rfNeeds, rfResp, rfToken>>
netVars == <<httpLog>>
oaVars  == <<protectedResource, authServer, clientReg, pkce, random>>
conVars == <<gor, issued>>
toolVars == <<toolIn, toolOut>>
flowVars == <<opts, oauthCfg, boundPort, authURL>>
libVars == <<oaCall>>
vars    == <<mcpVars, sseVars, cbVars, fsVars, cfgVars, rfVars, netVars, oaVars, conVars, toolVars,
             flowVars, libVars>>

\* what the actions of one component leave alone
mcpFrame == <<sseVars, cbVars, fsVars, cfgVars, rfVars, netVars, oaVars, conVars, toolVars,
             flowVars, libVars>>
sseFrame == <<mcpVars, cbVars, fsVars, cfgVars, rfVars, netVars, oaVars, conVars, toolVars,
             flowVars, libVars>>
cbFrame  == <<mcpVars, sseVars, fsVars, cfgVars, rfVars, netVars, oaVars, conVars, toolVars,
             flowVars, libVars>>
afFrame  == <<mcpVars, sseVars, cfgVars, rfVars, conVars, toolVars,
             flowVars, libVars>>
cfgFrame == <<mcpVars, sseVars, cbVars, rfVars, netVars, oaVars, conVars, toolVars,
             flowVars, libVars>>
rfFrame  == <<mcpVars, sseVars, cbVars, cfgVars, oaVars, conVars, toolVars,
             flowVars, libVars>>
conFrame == <<sseVars, cbVars, fsVars, cfgVars, rfVars, netVars, oaVars, toolVars,
             flowVars, libVars>>
toolFrame == <<mcpVars, sseVars, cbVars, fsVars, cfgVars, rfVars, netVars, oaVars, conVars,
              flowVars, libVars>>
\* ... and the steps of a flow that bind the listener or show the URL
urlFrame == <<mcpVars, sseVars, fsVars, cfgVars, rfVars, netVars, oaVars, conVars, toolVars,
             libVars>>

---------------------------------------------------------------------------
(* Bounds of the model.                                                    *)

\* sendRequest calls made on one client
MaxReq == 4
\* lines of an SSE body given to parseSSEResponse
MaxLines == 4
\* HTTP requests the callback listener accepts
MaxConns == 2
\* goroutines that share one client
MaxGor == 2
\* content blocks of a tool result
MaxContent == 2
\* seeds of the byte patterns that stand for the output of crypto/rand
MaxSeed == 7

---------------------------------------------------------------------------
(* The environment and the files under ~/.config/gotion (package config). *)
(* Errors are strings, "nil" standing for the nil error.                   *)

\* TokenData (config.go:41-52); the zero value of every field is "" or 0
ZeroToken ==
    [backend |-> "", accessToken |-> "", tokenType |-> "", clientID |-> "",
     refreshToken |-> "", expiresAt |-> 0, botID |-> ""]

\* Backend (config.go:33-39)
BackendMCP == "mcp"

\* token.json: absent, not JSON, or the JSON of a TokenData
TokenFileAbsent  == [st |-> "absent", data |-> ZeroToken]
TokenFileCorrupt == [st |-> "corrupt", data |-> ZeroToken]
TokenFileOf(t)   == [st |-> "ok", data |-> t]

\* the keys of config.toml that Config (config.go:26-31) reads
ZeroSettings == [token |-> "", backend |-> "", client_id |-> ""]

\* config.toml: absent, not TOML, or its settings
ConfigFileAbsent    == [st |-> "absent", data |-> ZeroSettings]
ConfigFileMalformed == [st |-> "malformed", data |-> ZeroSettings]
ConfigFileOf(s)     == [st |-> "ok", data |-> s]

\* LoadToken (config.go:195-214)
LoadToken(e, tf) ==
    IF ~e.home THEN [err |-> "$HOME is not defined", data |-> ZeroToken]
    ELSE IF tf.st = "absent" THEN [err |-> "no such file or directory", data |-> ZeroToken]
    ELSE IF tf.st = "corrupt" THEN [err |-> "failed to unmarshal token", data |-> ZeroToken]
    ELSE [err |-> "nil", data |-> tf.data]

\* viper's lookup of one key: a bound, non-empty environment variable
\* comes before the value of the config file
ViperGet(envValue, cf, fileValue) ==
    IF envValue # "" THEN envValue
    ELSE IF cf.st = "ok" THEN fileValue
    ELSE ""

NoConfig == [err |-> "nil", token |-> "", clientID |-> "", backend |-> ""]

\* Load (config.go:54-110)
Load(e, cf, tf) ==
    IF ~e.home THEN [NoConfig EXCEPT !.err = "failed to get config directory"]
    ELSE IF cf.st = "malformed" THEN [NoConfig EXCEPT !.err = "failed to read config file"]
    ELSE LET token1    == ViperGet(e.GOTION_TOKEN, cf, cf.data.token)
             clientID1 == ViperGet(e.GOTION_CLIENT_ID, cf, cf.data.client_id)
             backend   == ViperGet(e.GOTION_BACKEND, cf, cf.data.backend)
             token2    == IF token1 = "" /\ e.NOTION_TOKEN # ""
                          THEN e.NOTION_TOKEN ELSE token1
             tokenData == LoadToken(e, tf)
             fromFile  == token2 = "" /\ tokenData.err = "nil"
                              /\ tokenData.data.accessToken # ""
         IN  [err      |-> "nil",
              token    |-> IF fromFile THEN tokenData.data.accessToken ELSE token2,
              clientID |-> IF fromFile /\ clientID1 = ""
                           THEN tokenData.data.clientID ELSE clientID1,
              backend  |-> backend]

\* variant: a write that never fails
WriteOutcomes_Ok == {"ok"}

\* os.MkdirAll and os.WriteFile of SaveToken: done, refused before the
\* file was touched, or failed after the file was truncated
WriteOutcomes == {"ok", "refused", "truncated"}

\* SaveToken (config.go:169-192): the file afterwards and the error
SaveToken(e, tf, t, outcome) ==
    IF ~e.home THEN [file |-> tf, err |-> "failed to create config directory"]
    ELSE IF outcome = "ok" THEN [file |-> TokenFileOf(t), err |-> "nil"]
    ELSE IF outcome = "refused" THEN [file |-> tf, err |-> "failed to write token file"]
    ELSE [file |-> TokenFileCorrupt, err |-> "failed to write token file"]

---------------------------------------------------------------------------
(* The OAuth client of the MCP backend (package mcp): discovery and the    *)
(* refresh grant.  An HTTP exchange either fails in the transport          *)
(* ("neterr") or yields a status and a body; json says whether the body    *)
(* decodes, and a field the body lacks decodes to "" or 0.                 *)

serverURL == "https://mcp.notion.com"

\* one request handed to httpClient.Do, with the answer it got; an
\* endpoint taken from the metadata is a whole URL and stands in path,
\* with no host
Request(method, host, path, form, answer) ==
    [method |-> method, host |-> host, path |-> path, form |-> form, answer |-> answer]

\* a redirect URI, http://<host>:<port>/callback
RedirectURI(host, port) == [host |-> host, port |-> port]

NoRedirect == RedirectURI("", 0)

\* the fields of a request body: the grant type, the code or refresh
\* token, client_id, redirect_uri (redirect_uris) and code_verifier
Form(grant, credential, client, redirect, verifier) ==
    [grant_type |-> grant, credential |-> credential, client_id |-> client,
     redirect_uri |-> redirect, code_verifier |-> verifier]

NoForm == Form("", "", "", NoRedirect, <<>>)

Get(host, path, answer) == Request("GET", host, path, NoForm, answer)

\* answers to GET /.well-known/oauth-protected-resource
PRResponse(kind, status, json, servers) ==
    [kind |-> kind, status |-> status, json |-> json, authorization_servers |-> servers]

PRResponses ==
    {PRResponse("neterr", 0, FALSE, <<>>), PRResponse("http", 500, TRUE, <<"as1">>),
     PRResponse("http", 200, FALSE, <<>>), PRResponse("http", 200, TRUE, <<>>),
     PRResponse("http", 200, TRUE, <<"as2", "as1">>)}

\* AuthServerMetadata (part_012:28-38), unset while the pointer is nil
NoAuthServer ==
    [set |-> FALSE, authorization_endpoint |-> "", token_endpoint |-> "",
     registration_endpoint |-> ""]

\* answers to GET /.well-known/oauth-authorization-server
ASResponse(kind, status, json, authz, token, reg) ==
    [kind |-> kind, status |-> status, json |-> json, authorization_endpoint |-> authz,
     token_endpoint |-> token, registration_endpoint |-> reg]

ASResponses ==
    {ASResponse("neterr", 0, FALSE, "", "", ""),
     ASResponse("http", 404, TRUE, "/authorize", "/token", "/register"),
     ASResponse("http", 200, FALSE, "", "", ""),
     ASResponse("http", 200, TRUE, "", "", ""),
     ASResponse("http", 200, TRUE, "/authorize", "", "/register"),
     ASResponse("http", 200, TRUE, "", "/token", "/register"),
     ASResponse("http", 200, TRUE, "/authorize", "/token", ""),
     ASResponse("http", 200, TRUE, "/authorize", "/token", "/register")}

\* variant: the endpoints of the metadata not looked at
EndpointsPresent_Unchecked(as) == TRUE

\* the negation of: asMetadata.AuthorizationEndpoint == "" || asMetadata.TokenEndpoint == ""
EndpointsPresent(as) == as.authorization_endpoint # "" /\ as.token_endpoint # ""

\* variant: a second fetch issued whatever the first one gave
FirstStepOK_Always(pr) == TRUE

\* the first step of DiscoverEndpoints went through (part_012:115-133)
FirstStepOK(pr) ==
    pr.kind = "http" /\ pr.status = 200 /\ pr.json /\ Len(pr.authorization_servers) > 0

Discovered(err, reqs, pr, as) == [err |-> err, reqs |-> reqs, protectedResource |-> pr, authServer |-> as]

\* DiscoverEndpoints (part_012:107-168): the error, the requests issued
\* and the client's fields afterwards
DiscoverEndpoints(pr, as) ==
    LET get1 == Get(serverURL, "/.well-known/oauth-protected-resource", pr)
        host == IF Len(pr.authorization_servers) > 0 THEN pr.authorization_servers[1] ELSE ""
        get2 == Get(host, "/.well-known/oauth-authorization-server", as)
    IN  IF ~FirstStepOK(pr)
        THEN Discovered(IF pr.kind = "neterr" \/ pr.status # 200
                            THEN "failed to fetch protected resource metadata"
                        ELSE IF ~pr.json THEN "failed to decode protected resource metadata"
                        ELSE "no authorization servers found in protected resource metadata",
                        <<get1>>, <<>>, NoAuthServer)
        ELSE IF as.kind = "neterr" \/ as.status # 200
        THEN Discovered("failed to fetch auth server metadata", <<get1, get2>>,
                        pr.authorization_servers, NoAuthServer)
        ELSE IF ~as.json
        THEN Discovered("failed to decode auth server metadata", <<get1, get2>>,
                        pr.authorization_servers, NoAuthServer)
        ELSE IF ~EndpointsPresent(as)
        THEN Discovered("missing required endpoints in auth server metadata", <<get1, get2>>,
                        pr.authorization_servers, NoAuthServer)
        ELSE Discovered("nil", <<get1, get2>>, pr.authorization_servers,
                        [set |-> TRUE, authorization_endpoint |-> as.authorization_endpoint,
                         token_endpoint |-> as.token_endpoint,
                         registration_endpoint |-> as.registration_endpoint])

\* OAuthToken (part_012:69-77). hasExpiresIn says that the JSON document
\* has the member expires_in; the decoded struct does not tell a missing
\* member from a 0
ZeroOAuthToken ==
    [accessToken |-> "", tokenType |-> "", hasExpiresIn |-> FALSE, expiresIn |-> 0,
     refreshToken |-> "", expiresAt |-> 0]

\* answers of the token endpoint; readable says whether io.ReadAll gets
\* the whole body
TokenResponse(kind, status, readable, json, t) ==
    [kind |-> kind, status |-> status, readable |-> readable, json |-> json, token |-> t]

NoTokenResponse == TokenResponse("none", 0, FALSE, FALSE, ZeroOAuthToken)

GrantedTokens ==
    {t \in [accessToken : {"new"}, tokenType : {"Bearer"}, hasExpiresIn : BOOLEAN,
            expiresIn : {0, 5}, refreshToken : {"", "r2"}, expiresAt : {0, 7}] :
        t.expiresIn # 0 => t.hasExpiresIn}

TokenResponses ==
    {TokenResponse("neterr", 0, FALSE, FALSE, ZeroOAuthToken),
     TokenResponse("http", 200, FALSE, FALSE, ZeroOAuthToken),
     TokenResponse("http", 400, TRUE, TRUE, ZeroOAuthToken),
     TokenResponse("http", 200, TRUE, FALSE, ZeroOAuthToken),
     TokenResponse("http", 200, TRUE, TRUE, [ZeroOAuthToken EXCEPT !.refreshToken = "r2"])}
    \cup {TokenResponse("http", 200, TRUE, TRUE, t) : t \in GrantedTokens}

\* the values of time.Now().Unix()
Clock == {100}

\* variant: the expiry computed whenever the member is there
WithExpiry_IfPresent(t, now) ==
    IF t.hasExpiresIn THEN [t EXCEPT !.expiresAt = now + t.expiresIn] ELSE t

\* if token.ExpiresIn > 0 { token.ExpiresAt = time.Now().Unix() + int64(token.ExpiresIn) }
WithExpiry(t, now) ==
    IF t.expiresIn > 0 THEN [t EXCEPT !.expiresAt = now + t.expiresIn] ELSE t

\* variant: the token returned without a look at its access token
DecodeToken_AnyToken(tk, now, failure) ==
    IF tk.kind = "neterr" THEN [err |-> failure, token |-> ZeroOAuthToken]
    ELSE IF ~tk.readable THEN [err |-> "failed to read response", token |-> ZeroOAuthToken]
    ELSE IF tk.status # 200 THEN [err |-> failure, token |-> ZeroOAuthToken]
    ELSE IF ~tk.json THEN [err |-> "failed to decode token response", token |-> ZeroOAuthToken]
    ELSE [err |-> "nil", token |-> WithExpiry(tk.token, now)]

\* what the token endpoint's answer decodes to (part_012:364-393)
DecodeToken(tk, now, failure) ==
    IF tk.kind = "neterr" THEN [err |-> failure, token |-> ZeroOAuthToken]
    ELSE IF ~tk.readable THEN [err |-> "failed to read response", token |-> ZeroOAuthToken]
    ELSE IF tk.status # 200 THEN [err |-> failure, token |-> ZeroOAuthToken]
    ELSE IF ~tk.json THEN [err |-> "failed to decode token response", token |-> ZeroOAuthToken]
    ELSE IF tk.token.accessToken = ""
    THEN [err |-> "no access_token in response", token |-> ZeroOAuthToken]
    ELSE [err |-> "nil", token |-> WithExpiry(tk.token, now)]

\* RefreshToken (part_012:341-394): the error, the token and the requests
\* issued (none to the token endpoint unless discovery succeeded)
RefreshToken(clientID, refreshToken, pr, as, tk, now) ==
    LET d    == DiscoverEndpoints(pr, as)
        post == Request("POST", "", d.authServer.token_endpoint,
                        Form("refresh_token", refreshToken, clientID, NoRedirect, <<>>), tk)
        got  == DecodeToken(tk, now, "failed to refresh token")
    IN  IF d.err # "nil"
        THEN [err |-> "failed to discover endpoints", token |-> ZeroOAuthToken, reqs |-> d.reqs]
        ELSE [err |-> got.err, token |-> got.token, reqs |-> Append(d.reqs, post)]

\* an environment with a home directory and none of the variables set
PlainEnv ==
    [home |-> TRUE, GOTION_TOKEN |-> "", NOTION_TOKEN |-> "", GOTION_BACKEND |-> "",
     GOTION_CLIENT_ID |-> ""]

ConfigPending == [NoConfig EXCEPT !.err = "pending"]

\* no file written yet, Load not called, no command started, nothing sent
FSIdle ==
    /\ env = PlainEnv
    /\ configFile = ConfigFileAbsent
    /\ tokenFile = TokenFileAbsent

CfgIdle == cfgOut = ConfigPending

RFIdle ==
    /\ cmdName = ""
    /\ rfPc = "idle"
    /\ rfRet = "nil"
    /\ rfWhy = ""
    /\ rfOld = TokenFileAbsent
    /\ rfNeeds = FALSE
    /\ rfResp = NoTokenResponse
    /\ rfToken = ""

NetIdle == httpLog = <<>>

---------------------------------------------------------------------------
(* GeneratePKCE (package mcp): base64.RawURLEncoding and sha256.Sum256,    *)
(* computed on bytes.  A string is the sequence of its bytes.              *)

Pow2(n) == 2 ^ n

\* the alphabet of base64.URLEncoding: A-Z a-z 0-9 - _
URLAlphabet ==
    [i \in 0..63 |-> IF i < 26 THEN 65 + i
                     ELSE IF i < 52 THEN 97 + (i - 26)
                     ELSE IF i < 62 THEN 48 + (i - 52)
                     ELSE IF i = 62 THEN 45 ELSE 95]

\* variant: the encoding padded with "=" to a multiple of four characters
EncodedLen_Padded(n) == 4 * ((n + 2) \div 3)

\* RawURLEncoding.EncodedLen(n): no padding
EncodedLen(n) == (n * 8 + 5) \div 6

\* Encoding.EncodeToString(src): character k holds the bits 6(k-1) ..
\* 6k-1 of src, the last one filled up with zero bits, and is "=" where a
\* padded encoding is longer than that
EncodeToString(src) ==
    [k \in 1..EncodedLen(Len(src)) |->
        LET bit  == 6 * (k - 1)
            i    == bit \div 8 + 1
            off  == bit % 8
            next == IF i + 1 <= Len(src) THEN src[i + 1] ELSE 0
        IN  IF i > Len(src) THEN 61
            ELSE URLAlphabet[((src[i] * 256 + next) \div Pow2(10 - off)) % 64]]

\* sha256.Sum256(data): the 32 bytes of the SHA-256 digest (FIPS 180-4).
\* A 32-bit word is the pair of its 16-bit halves <<high, low>>.
Sum256(data) ==
    LET Half == 65536

        RECURSIVE Xor3H(_, _, _, _)
        \* a XOR b XOR c on the n low bits of three halves
        Xor3H(a, b, c, n) ==
            IF n = 0 THEN 0
            ELSE ((a + b + c) % 2) + 2 * Xor3H(a \div 2, b \div 2, c \div 2, n - 1)

        RECURSIVE ChH(_, _, _, _)
        \* (e AND f) XOR (NOT e AND g)
        ChH(e, f, g, n) ==
            IF n = 0 THEN 0
            ELSE (IF e % 2 = 1 THEN f % 2 ELSE g % 2)
                    + 2 * ChH(e \div 2, f \div 2, g \div 2, n - 1)

        RECURSIVE MajH(_, _, _, _)
        \* (a AND b) XOR (a AND c) XOR (b AND c)
        MajH(a, b, c, n) ==
            IF n = 0 THEN 0
            ELSE (IF (a % 2) + (b % 2) + (c % 2) >= 2 THEN 1 ELSE 0)
                    + 2 * MajH(a \div 2, b \div 2, c \div 2, n - 1)

        Xor3(a, b, c) == <<Xor3H(a[1], b[1], c[1], 16), Xor3H(a[2], b[2], c[2], 16)>>
        Ch(e, f, g)   == <<ChH(e[1], f[1], g[1], 16), ChH(e[2], f[2], g[2], 16)>>
        Maj(a, b, c)  == <<MajH(a[1], b[1], c[1], 16), MajH(a[2], b[2], c[2], 16)>>

        \* x >> n, for n < 16
        ShR(x, n) == <<x[1] \div Pow2(n), (x[2] \div Pow2(n)) + (x[1] % Pow2(n)) * Pow2(16 - n)>>

        \* x rotated right by n bits
        RotR(x, n) ==
            LET y == IF n >= 16 THEN <<x[2], x[1]>> ELSE x
                m == n % 16
            IN  <<(y[1] \div Pow2(m)) + (y[2] % Pow2(m)) * Pow2(16 - m),
                  (y[2] \div Pow2(m)) + (y[1] % Pow2(m)) * Pow2(16 - m)>>

        RECURSIVE SumHalves(_, _)
        SumHalves(ws, j) ==
            IF ws = <<>> THEN 0 ELSE Head(ws)[j] + SumHalves(Tail(ws), j)

        \* the sum of the words ws, modulo 2^32
        AddW(ws) ==
            LET low == SumHalves(ws, 2)
            IN  <<(SumHalves(ws, 1) + low \div Half) % Half, low % Half>>

        BigSigma0(x)   == Xor3(RotR(x, 2), RotR(x, 13), RotR(x, 22))
        BigSigma1(x)   == Xor3(RotR(x, 6), RotR(x, 11), RotR(x, 25))
        SmallSigma0(x) == Xor3(RotR(x, 7), RotR(x, 18), ShR(x, 3))
        SmallSigma1(x) == Xor3(RotR(x, 17), RotR(x, 19), ShR(x, 10))

        \* the round constants
        K256 ==
            <<<<17034, 12184>>, <<28983, 17553>>, <<46528, 64463>>, <<59829, 56229>>,
              <<14678, 49755>>, <<23025, 4593>>, <<37439, 33444>>, <<43804, 24277>>,
              <<55303, 43672>>, <<4739, 23297>>, <<9265, 34238>>, <<21772, 32195>>,
              <<29374, 23924>>, <<32990, 45566>>, <<39900, 1703>>, <<49563, 61812>>,
              <<58523, 27073>>, <<61374, 18310>>, <<4033, 40390>>, <<9228, 41420>>,
              <<11753, 11375>>, <<19060, 33962>>, <<23728, 43484>>, <<30457, 35034>>,
              <<38974, 20818>>, <<43057, 50797>>, <<45059, 10184>>, <<48985, 32711>>,
              <<50912, 3059>>, <<54695, 37191>>, <<1738, 25425>>, <<5161, 10599>>,
              <<10167, 2693>>, <<11803, 8504>>, <<19756, 28156>>, <<21304, 3347>>,
              <<25866, 29524>>, <<30314, 2747>>, <<33218, 51502>>, <<37490, 11397>>,
              <<41663, 59553>>, <<43034, 26187>>, <<49739, 35696>>, <<51052, 20899>>,
              <<53650, 59417>>, <<54937, 1572>>, <<62478, 13701>>, <<4202, 41072>>,
              <<6564, 49430>>, <<7735, 27656>>, <<10056, 30540>>, <<13488, 48309>>,
              <<14620, 3251>>, <<20184, 43594>>, <<23452, 51791>>, <<26670, 28659>>,
              <<29839, 33518>>, <<30885, 25455>>, <<33992, 30740>>, <<36039, 520>>,
              <<37054, 65530>>, <<42064, 27883>>, <<48889, 41975>>, <<50801, 30962>>>>

        \* the initial hash value
        H256 ==
            <<<<27145, 58983>>, <<47975, 44677>>, <<15470, 62322>>, <<42319, 62778>>,
              <<20750, 21119>>, <<39685, 26764>>, <<8067, 55723>>, <<23520, 52505>>>>

        \* the message, 0x80, zero bytes up to 56 mod 64, the bit length in 8 bytes
        Padded(msg) ==
            LET n     == Len(msg)
                zeros == (119 - (n % 64)) % 64
                bits  == n * 8
            IN  msg \o <<128>> \o [i \in 1..zeros |-> 0] \o <<0, 0, 0, 0>>
                    \o [i \in 1..4 |-> (bits \div Pow2(8 * (4 - i))) % 256]

        RECURSIVE Schedule(_)
        \* the message schedule W, extended from the words it has to 64
        Schedule(w) ==
            IF Len(w) = 64 THEN w
            ELSE LET t == Len(w) + 1
                 IN  Schedule(Append(w, AddW(<<w[t - 16], SmallSigma0(w[t - 15]), w[t - 7],
                                               SmallSigma1(w[t - 2])>>)))

        RECURSIVE Rounds(_, _)
        \* the compression function from round s.t + 1 on; s.v are the working
        \* variables a .. h
        Rounds(s, w) ==
            IF s.t = 64 THEN s.v
            ELSE LET v  == s.v
                     t1 == AddW(<<v[8], BigSigma1(v[5]), Ch(v[5], v[6], v[7]),
                                  K256[s.t + 1], w[s.t + 1]>>)
                     t2 == AddW(<<BigSigma0(v[1]), Maj(v[1], v[2], v[3])>>)
                 IN  Rounds([t |-> s.t + 1,
                             v |-> <<AddW(<<t1, t2>>), v[1], v[2], v[3], AddW(<<v[4], t1>>),
                                     v[5], v[6], v[7]>>], w)

        RECURSIVE Blocks(_, _, _)
        \* the hash value after the blocks from block b on
        Blocks(h, m, b) ==
            IF 64 * b >= Len(m) THEN h
            ELSE LET w0 == [i \in 1..16 |->
                              <<m[64 * b + 4 * i - 3] * 256 + m[64 * b + 4 * i - 2],
                                m[64 * b + 4 * i - 1] * 256 + m[64 * b + 4 * i]>>]
                     v  == Rounds([t |-> 0, v |-> h], Schedule(w0))
                 IN  Blocks([i \in 1..8 |-> AddW(<<h[i], v[i]>>)], m, b + 1)

        h == Blocks(H256, Padded(data), 0)
    IN  [i \in 1..32 |->
            LET w == h[(i - 1) \div 4 + 1]
                j == (i - 1) % 4
            IN  IF j = 0 THEN w[1] \div 256 ELSE IF j = 1 THEN w[1] % 256
                ELSE IF j = 2 THEN w[2] \div 256 ELSE w[2] % 256]

\* PKCEPair (part_012:63-67), unset while the pointer is nil
NoPKCE == [set |-> FALSE, codeVerifier |-> <<>>, codeChallenge |-> <<>>]

\* GeneratePKCE (part_012:225-244) when rand.Read delivers the bytes
\* rnd.bytes, or fails: the error and c.pkce afterwards
GeneratePKCE(old, rnd) ==
    IF ~rnd.ok THEN [err |-> "failed to generate random bytes", pkce |-> old]
    ELSE LET codeVerifier  == EncodeToString(rnd.bytes)
             hash          == Sum256(codeVerifier)
             codeChallenge == EncodeToString(hash)
         IN  [err |-> "nil",
              pkce |-> [set |-> TRUE, codeVerifier |-> codeVerifier,
                        codeChallenge |-> codeChallenge]]

\* what crypto/rand delivers: 32 bytes of a pattern, or a failure
RandomBytes(a, b) == [ok |-> TRUE, bytes |-> [i \in 1..32 |-> (51 * a + 37 * b * i) % 256]]

RandomFailure == [ok |-> FALSE, bytes |-> <<>>]

\* ---- registration and the code exchange

\* ClientRegistrationResponse (part_012:50-61), unset while the pointer is nil
NoClientReg == [set |-> FALSE, client_id |-> ""]

\* answers of the registration endpoint
RegResponse(kind, status, json, client) ==
    [kind |-> kind, status |-> status, json |-> json, client_id |-> client]

RegResponses ==
    {RegResponse("neterr", 0, FALSE, ""), RegResponse("http", 400, TRUE, ""),
     RegResponse("http", 200, FALSE, ""), RegResponse("http", 201, TRUE, ""),
     RegResponse("http", 201, TRUE, "cid")}

\* variant: the POST sent without looking at the registration endpoint
RegisterClient_NoEndpointCheck(as, old, callbackURL, resp) ==
    LET post == Request("POST", "", as.registration_endpoint,
                        Form("authorization_code refresh_token", "", "", callbackURL, <<>>),
                        resp)
        ok   == resp.kind # "neterr" /\ resp.status \in {200, 201} /\ resp.json
                    /\ resp.client_id # ""
    IN  IF ~as.set
        THEN [err |-> "auth server metadata not discovered", reqs |-> <<>>, clientReg |-> old]
        ELSE [err |-> IF ok THEN "nil" ELSE "failed to register client", reqs |-> <<post>>,
              clientReg |-> IF ok THEN [set |-> TRUE, client_id |-> resp.client_id] ELSE old]

\* RegisterClient (part_012:171-222) on a client whose fields are as and
\* old: the error, the requests issued and c.clientReg afterwards
RegisterClient(as, old, callbackURL, resp) ==
    LET post == Request("POST", "", as.registration_endpoint,
                        Form("authorization_code refresh_token", "", "", callbackURL, <<>>),
                        resp)
    IN  IF ~as.set
        THEN [err |-> "auth server metadata not discovered", reqs |-> <<>>, clientReg |-> old]
        ELSE IF as.registration_endpoint = ""
        THEN [err |-> "registration endpoint not available", reqs |-> <<>>, clientReg |-> old]
        ELSE IF resp.kind = "neterr" \/ resp.status \notin {200, 201}
        THEN [err |-> "failed to register client", reqs |-> <<post>>, clientReg |-> old]
        ELSE IF ~resp.json
        THEN [err |-> "failed to decode registration response", reqs |-> <<post>>,
              clientReg |-> old]
        ELSE IF resp.client_id = ""
        THEN [err |-> "no client_id in registration response", reqs |-> <<post>>,
              clientReg |-> old]
        ELSE [err |-> "nil", reqs |-> <<post>>,
              clientReg |-> [set |-> TRUE, client_id |-> resp.client_id]]

\* ExchangeCode (part_012:272-326): the error, the token and the requests issued
ExchangeCode(as, reg, pk, callbackURL, code, tk, now) ==
    LET post == Request("POST", "", as.token_endpoint,
                        Form("authorization_code", code, reg.client_id, callbackURL,
                             pk.codeVerifier), tk)
        got  == DecodeToken(tk, now, "failed to exchange code")
    IN  IF ~as.set
        THEN [err |-> "auth server metadata not discovered", token |-> ZeroOAuthToken,
              reqs |-> <<>>]
        ELSE IF ~reg.set
        THEN [err |-> "client not registered", token |-> ZeroOAuthToken, reqs |-> <<>>]
        ELSE IF ~pk.set
        THEN [err |-> "PKCE not generated", token |-> ZeroOAuthToken, reqs |-> <<>>]
        ELSE [err |-> got.err, token |-> got.token, reqs |-> <<post>>]

\* NewOAuthClient (part_012:95-104), and a random source in working order
\* no goroutine is inside sendRequest
GorIdle == [pc |-> "idle", reqID |-> 0, sent |-> "", hdr |-> ""]

Goroutines == 1..MaxGor

ConIdle ==
    /\ gor = [g \in Goroutines |-> GorIdle]
    /\ issued = <<>>

\* a JSON value of the envelope as the decoder keeps it (json.RawMessage)
\* or as it decodes: kind says what it is, text and the rest what it holds
Raw(kind, text, isError, content) ==
    [kind |-> kind, text |-> text, isError |-> isError, content |-> content]

\* the field is not in the envelope: the RawMessage is empty
Absent == Raw("absent", "", FALSE, <<>>)

\* the (*jsonRPCResponse, error) pair of sendRequest
Returned(sendErr, error, result) == [sendErr |-> sendErr, error |-> error, result |-> result]

\* the (*toolResult, error) pair of callTool; prefix is the text before
\* the colon of the error, msg what follows it
ToolReturn(prefix, msg, result) == [prefix |-> prefix, msg |-> msg, result |-> result]

NoToolReturn == ToolReturn("pending", "", Absent)

\* callTool not called
ToolIdle ==
    /\ toolIn = Returned("nil", Absent, Absent)
    /\ toolOut = NoToolReturn

\* const (defaultCallbackPort = 8080; defaultMCPCallbackPort = 9998)
defaultCallbackPort == 8080
defaultMCPCallbackPort == 9998

\* authOptions (part_001:23-26)
Options(mcp, port) == [mcp |-> mcp, port |-> port]

\* the ClientID and ClientSecret of a Config
OAuthConfig(id, secret) == [clientID |-> id, clientSecret |-> secret]

\* an authorization URL, with the two parameters the callback depends on
AuthURL(redirect, state) == [redirect_uri |-> redirect, state |-> state]

NoURL == AuthURL(NoRedirect, "")

\* gotion auth --mcp started, nothing bound or shown yet
FlowIdle ==
    /\ opts = Options(TRUE, defaultCallbackPort)
    /\ oauthCfg = OAuthConfig("", "")
    /\ boundPort = 0
    /\ authURL = NoURL

\* the outcome of a method of the OAuthClient: its name, the error it
\* returned and the methods that have returned nil up to now
Called(op, err, done) == [op |-> op, err |-> err, done |-> done]

\* no caller outside the auth command uses the client
LibIdle == oaCall = Called("", "nil", {})

OAIdle ==
    /\ protectedResource = <<>>
    /\ authServer = NoAuthServer
    /\ clientReg = NoClientReg
    /\ pkce = NoPKCE
    /\ random = RandomBytes(1, 1)

---------------------------------------------------------------------------
(* JSON text, abstracted to token sequences.  An envelope is the tokens    *)
(* { id [error] }; anything else json.Unmarshal rejects, except {} which   *)
(* decodes with the zero id.                                               *)

Open   == [k |-> "{", v |-> 0]
Close  == [k |-> "}", v |-> 0]
ErrTok == [k |-> "error", v |-> 0]
Junk   == [k |-> "junk", v |-> 0]
IdTok(n) == [k |-> "id", v |-> n]

Env(n, e) == IF e THEN <<Open, IdTok(n), ErrTok, Close>> ELSE <<Open, IdTok(n), Close>>

NoEnvelope == [ok |-> FALSE, id |-> 0, err |-> FALSE]

\* json.Unmarshal(data, &jsonRPCResponse{}) / json.Decoder.Decode
Unmarshal(buf) ==
    IF buf = <<Open, Close>> THEN [ok |-> TRUE, id |-> 0, err |-> FALSE]
    ELSE IF Len(buf) = 3 /\ buf[1] = Open /\ buf[2].k = "id" /\ buf[3] = Close
         THEN [ok |-> TRUE, id |-> buf[2].v, err |-> FALSE]
    ELSE IF Len(buf) = 4 /\ buf[1] = Open /\ buf[2].k = "id" /\ buf[3] = ErrTok
            /\ buf[4] = Close
         THEN [ok |-> TRUE, id |-> buf[2].v, err |-> TRUE]
    ELSE NoEnvelope

---------------------------------------------------------------------------
(* sendRequest's return values.                                            *)

NoRet == [kind |-> "none", id |-> 0, rpcErr |-> FALSE, path |-> "none", why |-> ""]
RetEnvelope(e, p) == [kind |-> "ok", id |-> e.id, rpcErr |-> e.err, path |-> p, why |-> ""]
RetError(w, p) == [kind |-> "err", id |-> 0, rpcErr |-> FALSE, path |-> p, why |-> w]

---------------------------------------------------------------------------
(* parseSSEResponse (client.go:210-240).  A line is a "data: " line with   *)
(* its payload, the empty line, or any other line; long marks a line that  *)
(* exceeds the bufio.Scanner buffer (64 KiB by default, never enlarged).   *)

DataLine(f)     == [t |-> "data", frag |-> f, long |-> FALSE]
LongDataLine(f) == [t |-> "data", frag |-> f, long |-> TRUE]
BlankLine       == [t |-> "blank", frag |-> <<>>, long |-> FALSE]
OtherLine       == [t |-> "other", frag |-> <<>>, long |-> FALSE]

\* variant: the id comparison left out
IdMatches_Always(resp, expectedID) == TRUE

\* resp.ID == expectedID
IdMatches(resp, expectedID) == resp.id = expectedID

\* variant: a scanner whose buffer takes any line
ScanFits_Always(line) == TRUE

\* scanner.Scan() delivers the line: it fits the scanner's buffer
ScanFits(line) == ~line.long

\* variant: the message without the id
NoResponse_Anonymous(expectedID) == RetError("no response received", "sse")

\* fmt.Errorf("no response received for request ID %d", expectedID)
NoResponse(expectedID) ==
    [RetError("no response received", "sse") EXCEPT !.id = expectedID]

RECURSIVE SSEScan_FlushAtEnd(_, _, _, _)
\* variant: a loop that evaluates what is buffered when the stream ends
SSEScan_FlushAtEnd(lines, i, buf, expectedID) ==
    IF i > Len(lines)
    THEN IF Len(buf) > 0 /\ Unmarshal(buf).ok /\ Unmarshal(buf).id = expectedID
         THEN RetEnvelope(Unmarshal(buf), "sse")
         ELSE NoResponse(expectedID)
    ELSE IF ~ScanFits(lines[i])
    THEN RetError("failed to read SSE response", "sse")
    ELSE IF lines[i].t = "data"
    THEN SSEScan_FlushAtEnd(lines, i + 1, buf \o lines[i].frag, expectedID)
    ELSE IF lines[i].t = "blank" /\ Len(buf) > 0
    THEN LET resp == Unmarshal(buf) IN
         IF ~resp.ok THEN SSEScan_FlushAtEnd(lines, i + 1, <<>>, expectedID)
         ELSE IF IdMatches(resp, expectedID) THEN RetEnvelope(resp, "sse")
         ELSE SSEScan_FlushAtEnd(lines, i + 1, <<>>, expectedID)
    ELSE SSEScan_FlushAtEnd(lines, i + 1, buf, expectedID)

RECURSIVE SSEScan(_, _, _, _)
\* the for scanner.Scan() loop, from line i on with dataBuffer = buf
SSEScan(lines, i, buf, expectedID) ==
    IF i > Len(lines)
    THEN NoResponse(expectedID)
    ELSE IF ~ScanFits(lines[i])
    THEN RetError("failed to read SSE response", "sse")
    ELSE IF lines[i].t = "data"
    THEN SSEScan(lines, i + 1, buf \o lines[i].frag, expectedID)
    ELSE IF lines[i].t = "blank" /\ Len(buf) > 0
    THEN LET resp == Unmarshal(buf) IN
         IF ~resp.ok THEN SSEScan(lines, i + 1, <<>>, expectedID)
         ELSE IF IdMatches(resp, expectedID) THEN RetEnvelope(resp, "sse")
         ELSE SSEScan(lines, i + 1, <<>>, expectedID)
    ELSE SSEScan(lines, i + 1, buf, expectedID)

parseSSEResponse(lines, expectedID) == SSEScan(lines, 1, <<>>, expectedID)

---------------------------------------------------------------------------
(* sendRequest (client.go:156-208).                                        *)

Sessions == {"s1", "s2"}

\* variant: the counter read but not advanced
AllocID_Load(n) == n

\* c.requestID.Add(1)
AllocID(n) == n + 1

\* variant: the header stored even when absent
StoreSession_Overwrite(old, hdr) == hdr

\* variant: the first session ID kept for good
StoreSession_First(old, hdr) == IF old = "" THEN hdr ELSE old

\* if sessionID := resp.Header.Get("Mcp-Session-Id"); sessionID != "" { c.sessionID = sessionID }
StoreSession(old, hdr) == IF hdr # "" THEN hdr ELSE old

\* The responses a server can give to the request with id reqID.
JSONBodies(reqID) ==
    {Env(reqID, FALSE), Env(reqID, TRUE), Env(reqID + 1, FALSE),
     <<Open, Close>>, <<Junk>>, <<>>}

SSEEvents(reqID) ==
    {Env(reqID, FALSE), Env(reqID, TRUE), Env(reqID + 1, FALSE), <<Junk>>}

Event(f) == <<DataLine(f), BlankLine>>

\* Streams of at most two events; a second event is looked at only when
\* the first one is not returned.
SSEStreams(reqID) ==
    {<<>>, <<DataLine(Env(reqID, FALSE))>>,
     <<LongDataLine(Env(reqID, FALSE)), BlankLine>>}
    \cup {Event(a) : a \in SSEEvents(reqID)}
    \cup {Event(a) \o Event(b) :
            a \in {Env(reqID + 1, FALSE), <<Junk>>}, b \in SSEEvents(reqID)}

\* kind is "neterr" when httpClient.Do fails; otherwise it tells the
\* Content-Type, and status is the HTTP status of the response
Responses(reqID) ==
    {[kind |-> "neterr", status |-> 0, session |-> "", body |-> <<>>, lines |-> <<>>]}
    \cup {[kind |-> "json", status |-> 200, session |-> s, body |-> b, lines |-> <<>>] :
            s \in Sessions \cup {""}, b \in JSONBodies(reqID)}
    \cup {[kind |-> "sse", status |-> 200, session |-> s, body |-> <<>>, lines |-> l] :
            s \in Sessions \cup {""}, l \in SSEStreams(reqID)}

\* the same answers under any of these HTTP statuses
Statuses == {200, 202, 404, 500}

AnyStatus(responses) ==
    {r \in responses : r.kind = "neterr"}
    \cup {[r EXCEPT !.status = s] : r \in {q \in responses : q.kind # "neterr"}, s \in Statuses}

\* The direct path: json.NewDecoder(resp.Body).Decode(&jsonResp)
DecodeJSON(body) ==
    LET resp == Unmarshal(body) IN
    IF resp.ok THEN RetEnvelope(resp, "json")
    ELSE RetError("failed to decode response", "json")

\* variant: a response outside 2xx turned into an error before its
\* headers and body are looked at
SendRequest_CheckStatus(method, resp) ==
    LET reqID == AllocID(requestID)
        bad   == resp.kind # "neterr" /\ resp.status \notin {200, 202}
        out   == IF resp.kind = "neterr" THEN RetError("failed to send request", "none")
                 ELSE IF bad THEN RetError("unexpected status", "none")
                 ELSE IF resp.kind = "sse" THEN parseSSEResponse(resp.lines, reqID)
                 ELSE DecodeJSON(resp.body)
        sent  == [id |-> reqID, method |-> method, session |-> sessionID,
                  rsession |-> resp.session, status |-> resp.status,
                  res |-> IF resp.kind = "neterr" THEN "unsent" ELSE out.kind]
    IN  [requestID |-> reqID,
         wire      |-> Append(wire, sent),
         sessionID |-> IF resp.kind = "neterr" \/ bad THEN sessionID
                       ELSE StoreSession(sessionID, resp.session),
         ret       |-> out]

\* One whole sendRequest(method) answered by resp: the new values of the
\* client's fields, the request as sent and the value returned. The
\* status of the response is carried into the history and read nowhere.
SendRequest(method, resp) ==
    LET reqID == AllocID(requestID)
        out   == IF resp.kind = "neterr" THEN RetError("failed to send request", "none")
                 ELSE IF resp.kind = "sse" THEN parseSSEResponse(resp.lines, reqID)
                 ELSE DecodeJSON(resp.body)
        sent  == [id |-> reqID, method |-> method, session |-> sessionID,
                  rsession |-> resp.session, status |-> resp.status,
                  res |-> IF resp.kind = "neterr" THEN "unsent" ELSE out.kind]
    IN  [requestID |-> reqID,
         wire      |-> Append(wire, sent),
         sessionID |-> IF resp.kind = "neterr" THEN sessionID
                       ELSE StoreSession(sessionID, resp.session),
         ret       |-> out]

---------------------------------------------------------------------------
(* GetPage, Search, ensureInitialized, callTool (client.go:42-154).        *)

\* variant: the flag not consulted
NeedsHandshake_Always(init) == TRUE

\* variant: the handshake left out
NeedsHandshake_Never(init) == FALSE

\* if c.initialized { return nil }
NeedsHandshake(init) == ~init

\* GetPage / Search up to the first sendRequest: ensureInitialized's guard
Enter(name) ==
    /\ cpc = "idle"
    /\ requestID < MaxReq
    /\ tool' = name
    /\ cpc' = IF NeedsHandshake(initialized) THEN "initialize" ELSE "tools/call"
    /\ ret' = NoRet
    /\ UNCHANGED <<requestID, sessionID, initialized, wire>>
    /\ UNCHANGED mcpFrame

GetPage == Enter("notion-fetch")

Search == Enter("notion-search")

\* ensureInitialized: sendRequest(ctx, "initialize", params) and its checks
SendInitialize ==
    /\ cpc = "initialize"
    /\ requestID < MaxReq
    /\ \E resp \in Responses(AllocID(requestID)) :
         LET out == SendRequest("initialize", resp) IN
         /\ requestID' = out.requestID
         /\ sessionID' = out.sessionID
         /\ wire' = out.wire
         /\ ret' = out.ret
         /\ IF out.ret.kind = "ok" /\ ~out.ret.rpcErr
            THEN cpc' = "notifications/initialized" /\ tool' = tool
            ELSE cpc' = "idle" /\ tool' = ""
    /\ UNCHANGED initialized
    /\ UNCHANGED mcpFrame

\* ensureInitialized: sendRequest(ctx, "notifications/initialized", nil)
SendInitialized ==
    /\ cpc = "notifications/initialized"
    /\ requestID < MaxReq
    /\ \E resp \in Responses(AllocID(requestID)) :
         LET out == SendRequest("notifications/initialized", resp) IN
         /\ requestID' = out.requestID
         /\ sessionID' = out.sessionID
         /\ wire' = out.wire
         /\ ret' = out.ret
         /\ IF out.ret.kind = "ok"
            THEN initialized' = TRUE /\ cpc' = "tools/call" /\ tool' = tool
            ELSE initialized' = initialized /\ cpc' = "idle" /\ tool' = ""
    /\ UNCHANGED mcpFrame

\* callTool: sendRequest(ctx, "tools/call", params); the call returns
CallTool ==
    /\ cpc = "tools/call"
    /\ requestID < MaxReq
    /\ \E resp \in Responses(AllocID(requestID)) :
         LET out == SendRequest("tools/call", resp) IN
         /\ requestID' = out.requestID
         /\ sessionID' = out.sessionID
         /\ wire' = out.wire
         /\ ret' = out.ret
    /\ cpc' = "idle"
    /\ tool' = ""
    /\ UNCHANGED initialized
    /\ UNCHANGED mcpFrame

\* NewClient (client.go:33-40)
MCPInit ==
    /\ requestID = 0
    /\ sessionID = ""
    /\ initialized = FALSE
    /\ cpc = "idle"
    /\ tool = ""
    /\ wire = <<>>
    /\ ret = NoRet

SSEIdle ==
    /\ sseLines = <<>>
    /\ sseExpected = 0
    /\ sseOut = NoRet

CBIdle ==
    /\ afPc = "discover"
    /\ afErr = "nil"
    /\ listener = "none"
    /\ serving = FALSE
    /\ ctxDone = FALSE
    /\ sCode = ""
    /\ sState = ""
    /\ sErr = "nil"
    /\ doneClosed = FALSE
    /\ conns = <<>>
    /\ startRet = "pending"
    /\ closeErr = "none"

Init == MCPInit /\ SSEIdle /\ CBIdle /\ FSIdle /\ CfgIdle /\ RFIdle /\ NetIdle /\ OAIdle /\ ConIdle /\ ToolIdle
    /\ FlowIdle /\ LibIdle

Next ==
    \/ GetPage
    \/ Search
    \/ SendInitialize
    \/ SendInitialized
    \/ CallTool

Spec == Init /\ [][Next]_vars

---------------------------------------------------------------------------
(* One sendRequest of an initialized client, answered under any HTTP       *)
(* status.                                                                 *)

\* callTool's sendRequest, the server free to pick the status
CallToolAnyStatus ==
    /\ cpc = "tools/call"
    /\ requestID < MaxReq
    /\ \E resp \in AnyStatus(Responses(AllocID(requestID))) :
         LET out == SendRequest("tools/call", resp) IN
         /\ requestID' = out.requestID
         /\ sessionID' = out.sessionID
         /\ wire' = out.wire
         /\ ret' = out.ret
    /\ cpc' = "idle"
    /\ tool' = ""
    /\ UNCHANGED initialized
    /\ UNCHANGED mcpFrame

\* a client after its handshake, inside GetPage or Search
InitStatus ==
    /\ SSEIdle /\ CBIdle /\ FSIdle /\ CfgIdle /\ RFIdle /\ NetIdle /\ OAIdle /\ ConIdle /\ ToolIdle
    /\ FlowIdle /\ LibIdle
    /\ requestID \in 2..(MaxReq - 1)
    /\ sessionID \in Sessions \cup {""}
    /\ initialized = TRUE
    /\ cpc = "tools/call"
    /\ tool \in {"notion-fetch", "notion-search"}
    /\ wire = <<>>
    /\ ret = NoRet

NextStatus ==
    \/ CallToolAnyStatus

SpecStatus == InitStatus /\ [][NextStatus]_vars

---------------------------------------------------------------------------
(* One Client shared by several goroutines, each calling sendRequest       *)
(* (client.go:156-208). c.requestID is an atomic.Int64; c.sessionID is a   *)
(* plain string field read at lines 180-181 and written at line 192, and   *)
(* the Client has no lock. A step is one access to a shared field.         *)

\* what a read of c.sessionID that is not ordered with a write can give
\* besides the two values: a string header mixed from both
Torn == "<torn>"

\* the values other goroutines are about to store into c.sessionID
PendingWrites(g) ==
    {gor[h].hdr : h \in {k \in Goroutines \ {g} : gor[k].pc = "store"}}

\* the outcomes of goroutine g reading c.sessionID
ReadSession(g) ==
    {sessionID} \cup PendingWrites(g)
    \cup (IF PendingWrites(g) \ {sessionID} # {} THEN {Torn} ELSE {})

\* the answers of the server as far as the shared fields are concerned
ConResponses == {"neterr"} \cup {""} \cup Sessions

\* reqID := c.requestID.Add(1)
GoAlloc(g) ==
    /\ gor[g].pc = "idle"
    /\ requestID < MaxReq
    /\ requestID' = AllocID(requestID)
    /\ issued' = Append(issued, AllocID(requestID))
    /\ gor' = [gor EXCEPT ![g] = [pc |-> "check", reqID |-> AllocID(requestID),
                                  sent |-> "", hdr |-> ""]]
    /\ UNCHANGED <<sessionID, initialized, cpc, tool, wire, ret>>
    /\ UNCHANGED conFrame

\* if c.sessionID != "" {
GoCheck(g) ==
    /\ gor[g].pc = "check"
    /\ \E v \in ReadSession(g) :
         gor' = [gor EXCEPT ![g].pc = IF v # "" THEN "set" ELSE "do"]
    /\ UNCHANGED <<issued, mcpVars>>
    /\ UNCHANGED conFrame

\* httpReq.Header.Set("Mcp-Session-Id", c.sessionID)
GoSetHeader(g) ==
    /\ gor[g].pc = "set"
    /\ \E v \in ReadSession(g) :
         gor' = [gor EXCEPT ![g].pc = "do", ![g].sent = v]
    /\ UNCHANGED <<issued, mcpVars>>
    /\ UNCHANGED conFrame

\* c.httpClient.Do(httpReq) up to the test of the response's session
\* header; a call that has nothing to store runs to its return
GoDo(g) ==
    /\ gor[g].pc = "do"
    /\ \E r \in ConResponses :
         gor' = [gor EXCEPT ![g] = IF r \in {"neterr", ""} THEN GorIdle
                                   ELSE [@ EXCEPT !.pc = "store", !.hdr = r]]
    /\ UNCHANGED <<issued, mcpVars>>
    /\ UNCHANGED conFrame

\* c.sessionID = sessionID, then the body is parsed and the call returns
GoStore(g) ==
    /\ gor[g].pc = "store"
    /\ sessionID' = StoreSession(sessionID, gor[g].hdr)
    /\ gor' = [gor EXCEPT ![g] = GorIdle]
    /\ UNCHANGED <<requestID, initialized, cpc, tool, wire, ret, issued>>
    /\ UNCHANGED conFrame

NextShared ==
    \/ \E g \in Goroutines : GoAlloc(g)
    \/ \E g \in Goroutines : GoCheck(g)
    \/ \E g \in Goroutines : GoSetHeader(g)
    \/ \E g \in Goroutines : GoDo(g)
    \/ \E g \in Goroutines : GoStore(g)

SpecShared == Init /\ [][NextShared]_vars

---------------------------------------------------------------------------
(* parseSSEResponse applied to every stream of at most MaxLines lines.     *)

SSEFragments ==
    {Env(1, FALSE), Env(2, FALSE), Env(1, TRUE), <<Open, Close>>,
     <<Open, IdTok(1)>>, <<Close>>, <<Junk>>}

SSELineSet ==
    {DataLine(f) : f \in SSEFragments}
    \cup {LongDataLine(Env(1, FALSE)), BlankLine, OtherLine}

BoundedSeq(S, n) == UNION {[1..k -> S] : k \in 0..n}

SSEInit ==
    /\ sseLines \in BoundedSeq(SSELineSet, MaxLines)
    /\ sseExpected \in 1..2
    /\ sseOut = NoRet

\* sendRequest's call c.parseSSEResponse(resp.Body, reqID) (client.go:198)
ParseSSE ==
    /\ sseOut.kind = "none"
    /\ sseOut' = parseSSEResponse(sseLines, sseExpected)
    /\ UNCHANGED <<sseLines, sseExpected>>
    /\ UNCHANGED sseFrame

InitSSE == MCPInit /\ SSEInit /\ CBIdle /\ FSIdle /\ CfgIdle /\ RFIdle /\ NetIdle /\ OAIdle /\ ConIdle /\ ToolIdle
    /\ FlowIdle /\ LibIdle

NextSSE == ParseSSE

SpecSSE == InitSSE /\ [][NextSSE]_vars

---------------------------------------------------------------------------
(* callTool after its sendRequest (client.go:131-153) and GetError         *)
(* (client.go:264-283), as functions of what sendRequest returned.         *)

\* the error member of an envelope: missing, an object with a message, an
\* object without one, a string, a number, null
ErrorFields ==
    {Absent, Raw("object", "rpc failed", FALSE, <<>>), Raw("object", "", FALSE, <<>>),
     Raw("string", "boom", FALSE, <<>>), Raw("number", "5", FALSE, <<>>),
     Raw("null", "null", FALSE, <<>>)}

\* the result member: missing, not an object, null, or a tool result
ToolResults ==
    {Absent, Raw("string", "done", FALSE, <<>>), Raw("null", "null", FALSE, <<>>)}
    \cup {Raw("object", "", e, c) :
            e \in BOOLEAN, c \in BoundedSeq({"", "page not found"}, MaxContent)}

\* GetError: nil for an empty RawMessage; else the object (null decodes
\* into the zero object), else the string, else the raw text
GetError(e) ==
    IF e.kind = "absent" THEN [is |-> FALSE, message |-> ""]
    ELSE IF e.kind = "object" THEN [is |-> TRUE, message |-> e.text]
    ELSE IF e.kind = "null" THEN [is |-> TRUE, message |-> ""]
    ELSE [is |-> TRUE, message |-> e.text]

\* variant: the text of the last content block
ToolErrorText_Last(content) ==
    IF Len(content) > 0 THEN content[Len(content)] ELSE "unknown error"

\* the message of a tool-level failure
ToolErrorText(content) ==
    IF Len(content) > 0 THEN content[1] ELSE "unknown error"

\* callTool from the return of sendRequest on
callTool(r) ==
    IF r.sendErr # "nil" THEN ToolReturn("failed to call tool", r.sendErr, Absent)
    ELSE IF GetError(r.error).is
    THEN ToolReturn("MCP tool error", GetError(r.error).message, Absent)
    ELSE IF r.result.kind \notin {"object", "null"}
    THEN ToolReturn("failed to unmarshal tool result", "", Absent)
    ELSE LET result == IF r.result.kind = "null" THEN Raw("object", "", FALSE, <<>>)
                       ELSE r.result
         IN  IF result.isError
             THEN ToolReturn("MCP error", ToolErrorText(result.content), Absent)
             ELSE ToolReturn("nil", "", result)

\* the part of callTool that follows resp, err := c.sendRequest(...)
CallToolReturn ==
    /\ toolOut = NoToolReturn
    /\ toolOut' = callTool(toolIn)
    /\ UNCHANGED toolIn
    /\ UNCHANGED toolFrame

InitTool ==
    /\ MCPInit /\ SSEIdle /\ CBIdle /\ FSIdle /\ CfgIdle /\ RFIdle /\ NetIdle /\ OAIdle /\ ConIdle
    /\ FlowIdle /\ LibIdle
    /\ toolIn \in {Returned("failed to send request", Absent, Absent)}
                  \cup {Returned("nil", e, r) : e \in ErrorFields, r \in ToolResults}
    /\ toolOut = NoToolReturn

NextTool ==
    \/ CallToolReturn

SpecTool == InitTool /\ [][NextTool]_vars

---------------------------------------------------------------------------
(* CallbackServer and the flow that uses it, runMCPAuth and                *)
(* runTraditionalAuth.                                                     *)
(* Errors are strings, "nil" standing for the nil error.                   *)

\* generateState(): 16 random bytes in hex, never empty
GeneratedState == "abc123"

CtxErr == "context deadline exceeded"

\* The query of a request to /callback, and a request to any other path.
\* With an error parameter the other two are both present and valid or
\* both absent; a second code comes only with the right state.
CallbackRequests ==
    {r \in [path : {"/callback"}, error : {"", "access_denied"},
            state : {"", GeneratedState, "wrong"}, code : {"", "c1", "c2"},
            iface : {"lo", "eth0"}] :
        \* the request without a code and with a state that is not ours is
        \* the one that comes from another machine, over a network
        \* interface that is not the loopback one
        /\ r.iface = "eth0" <=> (r.state = "wrong" /\ r.code = "")
        /\ r.error # "" => (r.state = GeneratedState /\ r.code = "c1")
                              \/ (r.state = "" /\ r.code = "")
        /\ r.code = "c2" => r.state = GeneratedState}

OtherRequest ==
    [path |-> "/favicon.ico", error |-> "", state |-> "", code |-> "", iface |-> "lo"]

Requests == CallbackRequests \cup {OtherRequest}

\* variant: the listener bound to the loopback address
ListenHost_Loopback == "127.0.0.1"

\* the host part of the address given to net.Listen, fmt.Sprintf(":%d", port):
\* empty, which stands for every interface of the machine
ListenHost == ""

\* a connection arriving on interface iface reaches a listener bound to host
Reachable(host, iface) == host = "" \/ (host = "127.0.0.1" /\ iface = "lo")

\* variant: the state comparison left out
StateOK_Unchecked(expectedState, state) == TRUE

\* the negation of: expectedState != "" && state != expectedState
StateOK(expectedState, state) == ~(expectedState # "" /\ state # expectedState)

\* variant: the state compared before the error parameter is looked at
Handle_StateFirst(r, expectedState) ==
    IF r.path # "/callback"
    THEN [err |-> sErr, code |-> sCode, state |-> sState,
          resp |-> "404", signal |-> FALSE]
    ELSE IF ~StateOK(expectedState, r.state)
    THEN [err |-> "state mismatch", code |-> sCode, state |-> sState,
          resp |-> "failed: state mismatch", signal |-> TRUE]
    ELSE IF r.error # ""
    THEN [err |-> "OAuth error", code |-> sCode, state |-> sState,
          resp |-> "failed: error", signal |-> TRUE]
    ELSE IF r.code = ""
    THEN [err |-> "no authorization code received", code |-> sCode, state |-> sState,
          resp |-> "failed: no code", signal |-> TRUE]
    ELSE [err |-> sErr, code |-> r.code, state |-> r.state,
          resp |-> "success", signal |-> TRUE]

\* variant: a request to another path answered 404 and signalled as done
Handle_NotFoundSignals(r, expectedState) ==
    IF r.path # "/callback"
    THEN [err |-> sErr, code |-> sCode, state |-> sState,
          resp |-> "404", signal |-> TRUE]
    ELSE IF r.error # ""
    THEN [err |-> "OAuth error", code |-> sCode, state |-> sState,
          resp |-> "failed: error", signal |-> TRUE]
    ELSE IF ~StateOK(expectedState, r.state)
    THEN [err |-> "state mismatch", code |-> sCode, state |-> sState,
          resp |-> "failed: state mismatch", signal |-> TRUE]
    ELSE IF r.code = ""
    THEN [err |-> "no authorization code received", code |-> sCode, state |-> sState,
          resp |-> "failed: no code", signal |-> TRUE]
    ELSE [err |-> sErr, code |-> r.code, state |-> r.state,
          resp |-> "success", signal |-> TRUE]

\* What the handler of Start records for request r and answers, before it
\* closes s.done (signal says whether it goes on to close it).
Handle(r, expectedState) ==
    IF r.path # "/callback"
    THEN [err |-> sErr, code |-> sCode, state |-> sState,
          resp |-> "404", signal |-> FALSE]
    ELSE IF r.error # ""
    THEN [err |-> "OAuth error", code |-> sCode, state |-> sState,
          resp |-> "failed: error", signal |-> TRUE]
    ELSE IF ~StateOK(expectedState, r.state)
    THEN [err |-> "state mismatch", code |-> sCode, state |-> sState,
          resp |-> "failed: state mismatch", signal |-> TRUE]
    ELSE IF r.code = ""
    THEN [err |-> "no authorization code received", code |-> sCode, state |-> sState,
          resp |-> "failed: no code", signal |-> TRUE]
    ELSE [err |-> sErr, code |-> r.code, state |-> r.state,
          resp |-> "success", signal |-> TRUE]

\* variant: the socket left as it is
CloseListener_Leak(l) == l

\* listener.Close(), by CallbackServer.Close or by the HTTP server
CloseListener(l) == "closed"

ErrClosed == "use of closed network connection"

\* variant: a Close that tolerates a socket already closed
CloseResult_Once(l) == "nil"

\* the error of s.listener.Close(): closing a closed socket is an error
CloseResult(l) == IF l = "open" THEN "nil" ELSE ErrClosed

\* return fmt.Errorf(...) from the flow, with the deferred server.Close()
ExitFlow(err) ==
    /\ afPc' = "exit"
    /\ afErr' = err
    /\ listener' = CloseListener(listener)
    /\ closeErr' = CloseResult(listener)

\* callbackURL := fmt.Sprintf("http://127.0.0.1:%d/callback", port)
callbackURL == RedirectURI("127.0.0.1", defaultMCPCallbackPort)

\* The answers to one DiscoverEndpoints call: an answer is drawn only for
\* a request that is issued.
DiscoveryExchanges ==
    {[pr |-> pr, as |-> ASResponse("neterr", 0, FALSE, "", "", "")] :
        pr \in {q \in PRResponses : ~FirstStepOK(q)}}
    \cup {[pr |-> pr, as |-> as] :
        pr \in {q \in PRResponses : FirstStepOK(q)}, as \in ASResponses}

\* return fmt.Errorf(...) before the listener exists
ReturnEarly(err) ==
    /\ afPc' = "exit"
    /\ afErr' = err

\* Step 1 of runMCPAuth: mcpClient.DiscoverEndpoints(ctx)
AuthDiscover ==
    /\ afPc = "discover"
    /\ \E x \in DiscoveryExchanges :
         LET d == DiscoverEndpoints(x.pr, x.as) IN
         /\ httpLog' = httpLog \o d.reqs
         /\ protectedResource' = d.protectedResource
         /\ authServer' = d.authServer
         /\ IF d.err # "nil" THEN ReturnEarly("failed to discover endpoints")
            ELSE afPc' = "register" /\ afErr' = afErr
    /\ UNCHANGED <<listener, serving, ctxDone, sCode, sState, sErr, doneClosed, conns,
                   startRet, closeErr>>
    /\ UNCHANGED <<clientReg, pkce, random, fsVars>>
    /\ UNCHANGED afFrame

\* Step 2 of runMCPAuth: mcpClient.RegisterClient(ctx)
AuthRegister ==
    /\ afPc = "register"
    /\ \E resp \in RegResponses :
         LET r == RegisterClient(authServer, clientReg, callbackURL, resp) IN
         /\ httpLog' = httpLog \o r.reqs
         /\ clientReg' = r.clientReg
         /\ IF r.err # "nil" THEN ReturnEarly("failed to register client")
            ELSE afPc' = "pkce" /\ afErr' = afErr
    /\ UNCHANGED <<listener, serving, ctxDone, sCode, sState, sErr, doneClosed, conns,
                   startRet, closeErr>>
    /\ UNCHANGED <<protectedResource, authServer, pkce, random, fsVars>>
    /\ UNCHANGED afFrame

\* Step 3 of runMCPAuth: mcpClient.GeneratePKCE()
AuthPKCE ==
    /\ afPc = "pkce"
    /\ LET g == GeneratePKCE(pkce, random) IN
       /\ pkce' = g.pkce
       /\ IF g.err # "nil" THEN ReturnEarly("failed to generate PKCE")
          ELSE afPc' = "bind" /\ afErr' = afErr
    /\ UNCHANGED <<listener, serving, ctxDone, sCode, sState, sErr, doneClosed, conns,
                   startRet, closeErr>>
    /\ UNCHANGED <<protectedResource, authServer, clientReg, random, fsVars, netVars>>
    /\ UNCHANGED afFrame

\* port := defaultMCPCallbackPort (runMCPAuth), port := opts.port (runTraditionalAuth)
ListenPort(o) == IF o.mcp THEN defaultMCPCallbackPort ELSE o.port

\* the ports the system hands out to a listener that asks for port 0
EphemeralPorts == {49152, 49153}

\* the ports net.Listen("tcp", ":<port>") can end up bound to
Bindable(port) == IF port = 0 THEN EphemeralPorts ELSE {port}

\* variant: the redirect URI built from the port that was asked for
RedirectOf_Requested(o, actual) ==
    IF o.mcp THEN callbackURL
    ELSE RedirectURI("localhost", o.port)

\* callbackURL of runMCPAuth, redirectURI of runTraditionalAuth (from server.Port())
RedirectOf(o, actual) ==
    IF o.mcp THEN callbackURL
    ELSE RedirectURI("localhost", actual)

\* GetAuthURL of the MCP client (part_012:247-270): the error and the URL
GetAuthURL(as, reg, pk, redirect, state) ==
    IF ~as.set THEN [err |-> "auth server metadata not discovered", url |-> NoURL]
    ELSE IF ~reg.set THEN [err |-> "client not registered", url |-> NoURL]
    ELSE IF ~pk.set THEN [err |-> "PKCE not generated", url |-> NoURL]
    ELSE [err |-> "nil", url |-> AuthURL(redirect, state)]

\* gotion.NewCallbackServer(port): net.Listen
Bind ==
    /\ afPc = "bind"
    /\ \/ \E p \in Bindable(ListenPort(opts)) :
             /\ listener' = "open"
             /\ boundPort' = p
             /\ afPc' = "state"
             /\ afErr' = afErr
       \/ /\ afPc' = "exit"
          /\ afErr' = "failed to start callback server"
          /\ listener' = listener
          /\ boundPort' = boundPort
    /\ UNCHANGED <<serving, ctxDone, sCode, sState, sErr, doneClosed, conns, startRet>>
    /\ UNCHANGED closeErr
    /\ UNCHANGED <<opts, oauthCfg, authURL>>
    /\ UNCHANGED urlFrame

\* generateState(), the authorization URL, openBrowser
PrepareURL ==
    /\ afPc = "state"
    /\ LET redirect == RedirectOf(opts, boundPort)
           got      == IF opts.mcp
                       THEN GetAuthURL(authServer, clientReg, pkce, redirect, GeneratedState)
                       ELSE [err |-> "nil", url |-> AuthURL(redirect, GeneratedState)]
       IN  \/ /\ got.err = "nil"
              /\ afPc' = "start"
              /\ authURL' = got.url
              /\ UNCHANGED <<afErr, listener, closeErr>>
           \/ /\ got.err # "nil"
              /\ ExitFlow("failed to get auth URL")
              /\ authURL' = authURL
           \/ /\ ExitFlow("failed to generate state")
              /\ authURL' = authURL
    /\ UNCHANGED <<serving, ctxDone, sCode, sState, sErr, doneClosed, conns, startRet>>
    /\ UNCHANGED <<opts, oauthCfg, boundPort>>
    /\ UNCHANGED urlFrame

\* context.WithTimeout and server.Start up to its select: the Serve
\* goroutine is spawned
StartCall ==
    /\ afPc = "start"
    /\ afPc' = "select"
    /\ UNCHANGED <<afErr, listener, serving, ctxDone, sCode, sState, sErr,
                   doneClosed, conns, startRet>>
    /\ UNCHANGED closeErr
    /\ UNCHANGED cbFrame

\* go func() { _ = server.Serve(s.listener) }(): the goroutine starts to accept
Serve ==
    /\ afPc = "select"
    /\ ~serving
    /\ serving' = TRUE
    /\ UNCHANGED <<afPc, afErr, listener, ctxDone, sCode, sState, sErr,
                   doneClosed, conns, startRet>>
    /\ UNCHANGED closeErr
    /\ UNCHANGED cbFrame

\* The callbackTimeout deadline (5 minutes after StartCall) passes; by then
\* the Serve goroutine has long been running.
CtxExpire ==
    /\ afPc \in {"select", "shutdownCtx", "shutdownDone"}
    /\ serving
    /\ ~ctxDone
    /\ ctxDone' = TRUE
    /\ UNCHANGED <<afPc, afErr, listener, serving, sCode, sState, sErr,
                   doneClosed, conns, startRet>>
    /\ UNCHANGED closeErr
    /\ UNCHANGED cbFrame

\* The HTTP server accepts a connection and reads a request from it.
Accept ==
    /\ serving
    /\ listener = "open"
    /\ Len(conns) < MaxConns
    /\ \E r \in {q \in Requests : Reachable(ListenHost, q.iface)} :
         conns' = Append(conns, [req |-> r, pc |-> "accepted", resp |-> "none"])
    /\ UNCHANGED <<afPc, afErr, listener, serving, ctxDone, sCode, sState, sErr,
                   doneClosed, startRet>>
    /\ UNCHANGED closeErr
    /\ UNCHANGED cbFrame

\* The handler of connection i, up to its close(s.done).
HandlerRun(i) ==
    /\ conns[i].pc = "accepted"
    /\ LET h == Handle(conns[i].req, GeneratedState) IN
       /\ sErr' = h.err
       /\ sCode' = h.code
       /\ sState' = h.state
       /\ conns' = [conns EXCEPT ![i].resp = h.resp,
                                 ![i].pc = IF h.signal THEN "recorded" ELSE "done"]
    /\ UNCHANGED <<afPc, afErr, listener, serving, ctxDone, doneClosed, startRet>>
    /\ UNCHANGED closeErr
    /\ UNCHANGED cbFrame

\* close(s.done) in the handler of connection i: closing a closed channel
\* panics; net/http recovers the panic and drops the connection.
HandlerClose(i) ==
    /\ conns[i].pc = "recorded"
    /\ IF doneClosed
       THEN /\ conns' = [conns EXCEPT ![i].pc = "panicked"]
            /\ doneClosed' = doneClosed
       ELSE /\ conns' = [conns EXCEPT ![i].pc = "done"]
            /\ doneClosed' = TRUE
    /\ UNCHANGED <<afPc, afErr, listener, serving, ctxDone, sCode, sState, sErr, startRet>>
    /\ UNCHANGED closeErr
    /\ UNCHANGED cbFrame

\* case <-ctx.Done(): server.Shutdown begins by closing the listener
SelectCtx ==
    /\ afPc = "select"
    /\ ctxDone
    /\ afPc' = "shutdownCtx"
    /\ listener' = CloseListener(listener)
    /\ UNCHANGED <<afErr, serving, ctxDone, sCode, sState, sErr, doneClosed, conns, startRet>>
    /\ UNCHANGED closeErr
    /\ UNCHANGED cbFrame

\* case <-s.done: server.Shutdown begins by closing the listener
SelectDone ==
    /\ afPc = "select"
    /\ doneClosed
    /\ afPc' = "shutdownDone"
    /\ listener' = CloseListener(listener)
    /\ UNCHANGED <<afErr, serving, ctxDone, sCode, sState, sErr, doneClosed, conns, startRet>>
    /\ UNCHANGED closeErr
    /\ UNCHANGED cbFrame

HandlersIdle == \A i \in 1..Len(conns) : conns[i].pc \in {"done", "panicked"}

\* variant: Start returning nil on either branch
StartResult_Nil(branch) == "nil"

\* return ctx.Err() / return s.err
StartResult(branch) == IF branch = "shutdownCtx" THEN CtxErr ELSE sErr

\* server.Shutdown(context.Background()) returns once no handler is
\* running, and Start returns.
ShutdownReturn ==
    /\ afPc \in {"shutdownCtx", "shutdownDone"}
    /\ HandlersIdle
    /\ startRet' = StartResult(afPc)
    /\ afPc' = "started"
    /\ UNCHANGED <<afErr, listener, serving, ctxDone, sCode, sState, sErr, doneClosed, conns>>
    /\ UNCHANGED closeErr
    /\ UNCHANGED cbFrame

\* if err := server.Start(...); err != nil {...}; code := server.Code(); if code == "" {...}
CheckCode ==
    /\ afPc = "started"
    /\ IF startRet # "nil" THEN ExitFlow("authorization failed")
       ELSE IF sCode = "" THEN ExitFlow("no authorization code received")
       ELSE afPc' = "exchange" /\ UNCHANGED <<afErr, listener, closeErr>>
    /\ UNCHANGED <<serving, ctxDone, sCode, sState, sErr, doneClosed, conns, startRet>>
    /\ UNCHANGED cbFrame

\* the answers of the token endpoint to the code exchange
ExchangeResponses ==
    {tk \in TokenResponses :
        tk.token.accessToken # "" => (tk.token.expiresIn = 5 /\ tk.token.expiresAt = 0)}

\* tokenData := &config.TokenData{...} of runMCPAuth
GrantedData(token, reg) ==
    [backend |-> BackendMCP, accessToken |-> token.accessToken,
     tokenType |-> token.tokenType, clientID |-> reg.client_id,
     refreshToken |-> token.refreshToken, expiresAt |-> token.expiresAt, botID |-> ""]

\* mcpClient.ExchangeCode(ctx, code) and config.SaveToken(tokenData), then return
Finish ==
    /\ afPc = "exchange"
    /\ \E tk \in ExchangeResponses, now \in Clock, outcome \in WriteOutcomes :
         LET x     == ExchangeCode(authServer, clientReg, pkce, callbackURL, sCode, tk, now)
             saved == SaveToken(env, tokenFile, GrantedData(x.token, clientReg), outcome)
         IN  /\ httpLog' = httpLog \o x.reqs
             /\ IF x.err # "nil"
                THEN tokenFile' = tokenFile /\ ExitFlow("failed to exchange code")
                ELSE /\ tokenFile' = saved.file
                     /\ ExitFlow(IF saved.err = "nil" THEN "nil" ELSE "failed to save token")
    /\ UNCHANGED <<serving, ctxDone, sCode, sState, sErr, doneClosed, conns, startRet>>
    /\ UNCHANGED <<env, configFile, oaVars>>
    /\ UNCHANGED afFrame

InitCallback == MCPInit /\ SSEIdle /\ CBIdle /\ FSIdle /\ CfgIdle /\ RFIdle /\ NetIdle /\ OAIdle /\ ConIdle /\ ToolIdle
    /\ FlowIdle /\ LibIdle

NextCallback ==
    \/ AuthDiscover
    \/ AuthRegister
    \/ AuthPKCE
    \/ Bind
    \/ PrepareURL
    \/ StartCall
    \/ Serve
    \/ CtxExpire
    \/ Accept
    \/ \E i \in 1..Len(conns) : HandlerRun(i)
    \/ \E i \in 1..Len(conns) : HandlerClose(i)
    \/ SelectCtx
    \/ SelectDone
    \/ ShutdownReturn
    \/ CheckCode
    \/ Finish

SpecCallback == InitCallback /\ [][NextCallback]_vars

\* Every goroutine that can run is scheduled: the Serve goroutine, the
\* handlers and the goroutine blocked in Start.
SpecCallbackFair ==
    /\ SpecCallback
    /\ WF_vars(Serve)
    /\ WF_vars(\E i \in 1..Len(conns) : HandlerRun(i))
    /\ WF_vars(\E i \in 1..Len(conns) : HandlerClose(i))
    /\ WF_vars(SelectCtx)
    /\ WF_vars(SelectDone)
    /\ WF_vars(ShutdownReturn)

---------------------------------------------------------------------------
(* The flow up to GeneratePKCE, for every output of crypto/rand that the   *)
(* model draws.                                                            *)

RandomOutputs ==
    {RandomBytes(a, b) : a \in 0..MaxSeed, b \in 0..MaxSeed} \cup {RandomFailure}

InitPKCE ==
    /\ MCPInit /\ SSEIdle /\ CBIdle /\ FSIdle /\ CfgIdle /\ RFIdle /\ NetIdle /\ ConIdle /\ ToolIdle
    /\ FlowIdle /\ LibIdle
    /\ protectedResource = <<>>
    /\ authServer = NoAuthServer
    /\ clientReg = NoClientReg
    /\ pkce = NoPKCE
    /\ random \in RandomOutputs

NextPKCE ==
    \/ AuthDiscover
    \/ AuthRegister
    \/ AuthPKCE

SpecPKCE == InitPKCE /\ [][NextPKCE]_vars

---------------------------------------------------------------------------
(* An OAuthClient used as a library: a caller invokes its exported methods *)
(* in any order, each when it likes (part_012:107-326).                    *)

MaxHTTP == 4

\* what a method of the client leaves alone
libFrame == <<mcpVars, sseVars, cbVars, fsVars, cfgVars, rfVars, conVars, toolVars>>

\* the answers the servers give to the caller's requests
LibDiscoveries ==
    {x \in DiscoveryExchanges :
        /\ x.pr.kind = "neterr" \/ FirstStepOK(x.pr)
        /\ x.as.kind = "neterr" \/ (x.as.status = 200 /\ x.as.json /\ EndpointsPresent(x.as))}

LibRegistrations == {r \in RegResponses : r.kind = "neterr" \/ r.client_id # ""}

LibTokens ==
    {tk \in ExchangeResponses :
        tk.kind = "neterr" \/ (tk.token.accessToken # "" /\ tk.token.refreshToken = "r2"
                                   /\ tk.token.hasExpiresIn)}

\* the record of a call that returned err
AfterCall(op, err) ==
    Called(op, err, IF err = "nil" THEN oaCall.done \cup {op} ELSE oaCall.done)

\* the caller goes on while fewer than MaxHTTP requests were sent
Calling == Len(httpLog) < MaxHTTP

\* c.DiscoverEndpoints(ctx): c.protectedResource is assigned once the first
\* step went through, c.authServer when the second did
CallDiscoverEndpoints ==
    /\ Calling
    /\ \E x \in LibDiscoveries :
         LET d == DiscoverEndpoints(x.pr, x.as) IN
         /\ httpLog' = httpLog \o d.reqs
         /\ protectedResource' = IF FirstStepOK(x.pr) THEN d.protectedResource
                                 ELSE protectedResource
         /\ authServer' = IF d.err = "nil" THEN d.authServer ELSE authServer
         /\ oaCall' = AfterCall("DiscoverEndpoints", d.err)
    /\ UNCHANGED <<clientReg, pkce, random, flowVars>>
    /\ UNCHANGED libFrame

\* c.RegisterClient(ctx)
CallRegisterClient ==
    /\ Calling
    /\ \E resp \in LibRegistrations :
         LET r == RegisterClient(authServer, clientReg, callbackURL, resp) IN
         /\ httpLog' = httpLog \o r.reqs
         /\ clientReg' = r.clientReg
         /\ oaCall' = AfterCall("RegisterClient", r.err)
    /\ UNCHANGED <<protectedResource, authServer, pkce, random, flowVars>>
    /\ UNCHANGED libFrame

\* c.GeneratePKCE()
CallGeneratePKCE ==
    /\ Calling
    /\ LET g == GeneratePKCE(pkce, random) IN
       /\ pkce' = g.pkce
       /\ oaCall' = AfterCall("GeneratePKCE", g.err)
    /\ UNCHANGED <<protectedResource, authServer, clientReg, random, netVars, flowVars>>
    /\ UNCHANGED libFrame

\* c.GetAuthURL(state): the URL returned is kept in authURL
CallGetAuthURL ==
    /\ Calling
    /\ \E state \in {"", "s1"} :
         LET g == GetAuthURL(authServer, clientReg, pkce, callbackURL, state) IN
         /\ authURL' = g.url
         /\ oaCall' = AfterCall("GetAuthURL", g.err)
    /\ UNCHANGED <<oaVars, netVars, opts, oauthCfg, boundPort>>
    /\ UNCHANGED libFrame

\* c.ExchangeCode(ctx, code)
CallExchangeCode ==
    /\ Calling
    /\ \E tk \in LibTokens, now \in Clock :
         LET e == ExchangeCode(authServer, clientReg, pkce, callbackURL, "c1", tk, now) IN
         /\ httpLog' = httpLog \o e.reqs
         /\ oaCall' = AfterCall("ExchangeCode", e.err)
    /\ UNCHANGED <<oaVars, flowVars>>
    /\ UNCHANGED libFrame

InitGuards ==
    /\ MCPInit /\ SSEIdle /\ CBIdle /\ FSIdle /\ CfgIdle /\ RFIdle /\ NetIdle /\ ConIdle /\ ToolIdle
    /\ FlowIdle /\ LibIdle
    /\ protectedResource = <<>>
    /\ authServer = NoAuthServer
    /\ clientReg = NoClientReg
    /\ pkce = NoPKCE
    /\ random \in {RandomBytes(1, 1), RandomFailure}

NextGuards ==
    \/ CallDiscoverEndpoints
    \/ CallRegisterClient
    \/ CallGeneratePKCE
    \/ CallGetAuthURL
    \/ CallExchangeCode

SpecGuards == InitGuards /\ [][NextGuards]_vars

---------------------------------------------------------------------------
(* config.Load called in an environment with arbitrary variables and       *)
(* files (runList, runGet and runConfig begin with it).                    *)

ConfigEnvs ==
    {[PlainEnv EXCEPT !.home = h, !.GOTION_TOKEN = g, !.NOTION_TOKEN = n] :
        h \in BOOLEAN, g \in {"", "gotion-token"}, n \in {"", "notion-token"}}

ConfigFiles ==
    {ConfigFileAbsent, ConfigFileMalformed, ConfigFileOf(ZeroSettings),
     ConfigFileOf([ZeroSettings EXCEPT !.token = "file-token"])}

ConfigTokenFiles ==
    {TokenFileAbsent, TokenFileCorrupt, TokenFileOf(ZeroToken),
     TokenFileOf([ZeroToken EXCEPT !.accessToken = "stored-token", !.clientID = "cid"])}

InitConfig ==
    /\ MCPInit /\ SSEIdle /\ CBIdle /\ CfgIdle /\ RFIdle /\ NetIdle /\ OAIdle /\ ConIdle /\ ToolIdle
    /\ FlowIdle /\ LibIdle
    /\ env \in ConfigEnvs
    /\ configFile \in ConfigFiles
    /\ tokenFile \in ConfigTokenFiles

\* cfg, err := config.Load()
LoadConfig ==
    /\ cfgOut = ConfigPending
    /\ cfgOut' = Load(env, configFile, tokenFile)
    /\ UNCHANGED fsVars
    /\ UNCHANGED cfgFrame

NextConfig ==
    \/ LoadConfig

SpecConfig == InitConfig /\ [][NextConfig]_vars

---------------------------------------------------------------------------
(* The pre-command token refresh: rootCmd.PersistentPreRunE and            *)
(* refreshTokenIfNeeded (package cmd), followed by the command itself.     *)

\* variant: the refresh token of the response taken as it is
KeepRefreshToken_Drop(fresh, stored) == fresh

\* if refreshedData.RefreshToken == "" { refreshedData.RefreshToken = tokenData.RefreshToken }
KeepRefreshToken(fresh, stored) == IF fresh = "" THEN stored ELSE fresh

\* variant: the stored access token carried over into the new record
RefreshedData_OldAccess(old, new) ==
    [backend |-> old.backend, accessToken |-> old.accessToken, tokenType |-> new.tokenType,
     clientID |-> old.clientID,
     refreshToken |-> KeepRefreshToken(new.refreshToken, old.refreshToken),
     expiresAt |-> new.expiresAt, botID |-> ""]

\* refreshedData := &config.TokenData{...}
RefreshedData(old, new) ==
    [backend |-> old.backend, accessToken |-> new.accessToken, tokenType |-> new.tokenType,
     clientID |-> old.clientID,
     refreshToken |-> KeepRefreshToken(new.refreshToken, old.refreshToken),
     expiresAt |-> new.expiresAt, botID |-> ""]

Left(err, why, file, reqs, resp) ==
    [ret |-> err, why |-> why, file |-> file, reqs |-> reqs, resp |-> resp]

\* refreshTokenIfNeeded: the error returned, the return statement taken,
\* token.json afterwards, the requests issued and the token endpoint's
\* answer.  needs is the result of tokenData.NeedsRefresh().
refreshTokenIfNeeded(e, cf, tf, needs, pr, as, tk, now, outcome) ==
    LET tokenData == LoadToken(e, tf)
        cfg       == Load(e, cf, tf)
        newToken  == RefreshToken(tokenData.data.clientID, tokenData.data.refreshToken,
                                  pr, as, tk, now)
        saved     == SaveToken(e, tf, RefreshedData(tokenData.data, newToken.token), outcome)
        asked     == IF Len(newToken.reqs) = 3 THEN tk ELSE NoTokenResponse
    IN  IF tokenData.err # "nil" THEN Left("nil", "no token", tf, <<>>, NoTokenResponse)
        ELSE IF ~needs THEN Left("nil", "fresh", tf, <<>>, NoTokenResponse)
        ELSE IF cfg.err # "nil" THEN Left("nil", "no config", tf, <<>>, NoTokenResponse)
        ELSE IF cfg.backend # BackendMCP
        THEN Left("nil", "other backend", tf, <<>>, NoTokenResponse)
        ELSE IF newToken.err # "nil"
        THEN Left("nil", newToken.err, tf, newToken.reqs, asked)
        ELSE Left(saved.err, "saved", saved.file, newToken.reqs, asked)

\* The answers the servers give to one RefreshToken call: an answer is
\* drawn only for a request that is issued.
RefreshExchanges ==
    LET as0 == ASResponse("neterr", 0, FALSE, "", "", "")
        tk0 == NoTokenResponse
        Rest(pr) ==
            IF ~FirstStepOK(pr) THEN {[pr |-> pr, as |-> as0, tk |-> tk0]}
            ELSE {[pr |-> pr, as |-> as, tk |-> tk0] :
                     as \in {a \in ASResponses : DiscoverEndpoints(pr, a).err # "nil"}}
                 \cup {[pr |-> pr, as |-> as, tk |-> tk] :
                     as \in {a \in ASResponses : DiscoverEndpoints(pr, a).err = "nil"},
                     tk \in TokenResponses}
    IN  UNION {Rest(pr) : pr \in PRResponses}

Commands == {"auth", "config", "version", "help", "list", "get"}

\* variant: the refresh run for every command
SkipsRefresh_Never(name) == FALSE

\* cmd.Name() == "auth" || ... == "config" || ... == "version" || ... == "help"
SkipsRefresh(name) == name \in {"auth", "config", "version", "help"}

\* rootCmd.PersistentPreRunE; cobra runs the command only if it returns nil
PersistentPreRunE ==
    /\ rfPc = "prerun"
    /\ \E needs \in BOOLEAN, x \in RefreshExchanges, now \in Clock,
          outcome \in WriteOutcomes :
         LET out == IF SkipsRefresh(cmdName)
                    THEN Left("nil", "skipped", tokenFile, <<>>, NoTokenResponse)
                    ELSE refreshTokenIfNeeded(env, configFile, tokenFile, needs,
                                              x.pr, x.as, x.tk, now, outcome)
         IN  /\ rfRet' = out.ret
             /\ rfWhy' = out.why
             /\ tokenFile' = out.file
             /\ httpLog' = httpLog \o out.reqs
             /\ rfResp' = out.resp
             /\ rfNeeds' = (needs /\ out.why \notin {"skipped", "no token"})
             /\ rfPc' = IF out.ret = "nil" THEN "run" ELSE "exit"
    /\ rfOld' = tokenFile
    /\ UNCHANGED <<env, configFile, cmdName, rfToken>>
    /\ UNCHANGED rfFrame

\* the command's RunE (runGet, runList): cfg, err := config.Load(), and
\* the token it goes on with
RunCommand ==
    /\ rfPc = "run"
    /\ rfToken' = Load(env, configFile, tokenFile).token
    /\ rfPc' = "exit"
    /\ UNCHANGED <<cmdName, rfRet, rfWhy, rfOld, rfNeeds, rfResp>>
    /\ UNCHANGED <<fsVars, netVars>>
    /\ UNCHANGED rfFrame

\* The commands start with or without a stored credential; the
\* environment and config.toml select the backend.
RefreshEnvs ==
    {[PlainEnv EXCEPT !.home = h, !.GOTION_BACKEND = b] :
        h \in BOOLEAN, b \in {"", "mcp"}}

RefreshConfigFiles ==
    {ConfigFileAbsent, ConfigFileMalformed,
     ConfigFileOf([ZeroSettings EXCEPT !.backend = "mcp"]),
     ConfigFileOf([ZeroSettings EXCEPT !.backend = "api"])}

StoredTokens ==
    [backend : {"mcp", "api"}, accessToken : {"old"}, tokenType : {"bearer"},
     clientID : {"cid"}, refreshToken : {"", "r1"}, expiresAt : {1}, botID : {""}]

RefreshTokenFiles ==
    {TokenFileAbsent, TokenFileCorrupt} \cup {TokenFileOf(t) : t \in StoredTokens}

InitRefresh ==
    /\ MCPInit /\ SSEIdle /\ CBIdle /\ CfgIdle /\ NetIdle /\ OAIdle /\ ConIdle /\ ToolIdle
    /\ FlowIdle /\ LibIdle
    /\ env \in RefreshEnvs
    /\ configFile \in RefreshConfigFiles
    /\ tokenFile \in RefreshTokenFiles
    /\ cmdName \in Commands
    /\ rfPc = "prerun"
    /\ rfRet = "nil"
    /\ rfWhy = ""
    /\ rfOld = TokenFileAbsent
    /\ rfNeeds = FALSE
    /\ rfResp = NoTokenResponse
    /\ rfToken = ""

NextRefresh ==
    \/ PersistentPreRunE
    \/ RunCommand

SpecRefresh == InitRefresh /\ [][NextRefresh]_vars

---------------------------------------------------------------------------
(* runTraditionalAuth (package cmd): the flow of "gotion auth" without     *)
(* --mcp, with the OAuthClient of package gotion and the same              *)
(* CallbackServer.                                                         *)

NotionTokenURL == "https://api.notion.com/v1/oauth/token"

\* OAuthClient.ExchangeCode of package gotion (format.go:656-697): the
\* error, the token and the request issued. The credentials of cfg go
\* into the Authorization header, not into the form.
TraditionalExchangeCode(cfg, redirect, code, tk) ==
    LET post == Request("POST", "", NotionTokenURL,
                        Form("authorization_code", code, "", redirect, <<>>), tk)
        Fail(e) == [err |-> e, token |-> ZeroOAuthToken, reqs |-> <<post>>]
    IN  IF tk.kind = "neterr" THEN Fail("failed to send request")
        ELSE IF ~tk.readable THEN Fail("failed to read response")
        ELSE IF tk.status # 200 THEN Fail("OAuth error")
        ELSE IF ~tk.json THEN Fail("failed to unmarshal token")
        ELSE [err |-> "nil", token |-> tk.token, reqs |-> <<post>>]

\* tokenData := &config.TokenData{...} of runTraditionalAuth
TraditionalData(token) ==
    [ZeroToken EXCEPT !.backend = "api", !.accessToken = token.accessToken,
                      !.tokenType = token.tokenType]

\* cfg.ValidateOAuth() (config.go:241-249)
ValidateOAuth(cfg) ==
    IF cfg.clientID = "" THEN "client_id is required"
    ELSE IF cfg.clientSecret = "" THEN "client_secret is required"
    ELSE "nil"

\* if err := cfg.ValidateOAuth(); err != nil { return err }
AuthValidate ==
    /\ afPc = "validate"
    /\ IF ValidateOAuth(oauthCfg) # "nil"
       THEN ReturnEarly(ValidateOAuth(oauthCfg))
       ELSE afPc' = "bind" /\ afErr' = afErr
    /\ UNCHANGED <<listener, serving, ctxDone, sCode, sState, sErr, doneClosed, conns,
                   startRet, closeErr>>
    /\ UNCHANGED <<fsVars, netVars, oaVars>>
    /\ UNCHANGED afFrame

\* oauthClient.ExchangeCode(ctx, code) and config.SaveToken(tokenData), then return
FinishTraditional ==
    /\ afPc = "exchange"
    /\ \E tk \in ExchangeResponses, outcome \in WriteOutcomes :
         LET x     == TraditionalExchangeCode(oauthCfg, authURL.redirect_uri, sCode, tk)
             saved == SaveToken(env, tokenFile, TraditionalData(x.token), outcome)
         IN  /\ httpLog' = httpLog \o x.reqs
             /\ IF x.err # "nil"
                THEN tokenFile' = tokenFile /\ ExitFlow("failed to exchange code")
                ELSE /\ tokenFile' = saved.file
                     /\ ExitFlow(IF saved.err = "nil" THEN "nil" ELSE "failed to save token")
    /\ UNCHANGED <<serving, ctxDone, sCode, sState, sErr, doneClosed, conns, startRet>>
    /\ UNCHANGED <<env, configFile, oaVars>>
    /\ UNCHANGED afFrame

\* the options and the credentials "gotion auth" is run with
TraditionalOptions == {Options(FALSE, p) : p \in {0, defaultCallbackPort}}

TraditionalConfigs == {OAuthConfig(id, secret) : id \in {"", "id"}, secret \in {"", "secret"}}

InitTraditional ==
    /\ MCPInit /\ SSEIdle /\ FSIdle /\ CfgIdle /\ RFIdle /\ NetIdle /\ OAIdle /\ ConIdle /\ ToolIdle
    /\ LibIdle
    /\ afPc = "validate"
    /\ afErr = "nil"
    /\ listener = "none"
    /\ serving = FALSE
    /\ ctxDone = FALSE
    /\ sCode = ""
    /\ sState = ""
    /\ sErr = "nil"
    /\ doneClosed = FALSE
    /\ conns = <<>>
    /\ startRet = "pending"
    /\ closeErr = "none"
    /\ opts \in TraditionalOptions
    /\ oauthCfg \in TraditionalConfigs
    /\ boundPort = 0
    /\ authURL = NoURL

NextTraditional ==
    \/ AuthValidate
    \/ Bind
    \/ PrepareURL
    \/ StartCall
    \/ Serve
    \/ CtxExpire
    \/ Accept
    \/ \E i \in 1..Len(conns) : HandlerRun(i)
    \/ \E i \in 1..Len(conns) : HandlerClose(i)
    \/ SelectCtx
    \/ SelectDone
    \/ ShutdownReturn
    \/ CheckCode
    \/ FinishTraditional

SpecTraditional == InitTraditional /\ [][NextTraditional]_vars

---------------------------------------------------------------------------
(* Claims about the MCP client.                                            *)

Max(S) == CHOOSE x \in S : \A y \in S : y <= x
Min(S) == CHOOSE x \in S : \A y \in S : x <= y

\* C1: the ids of the requests sent by one client are 1, 2, 3, ... in the
\* order of the calls, whether a call succeeds or fails: strictly
\* increasing from 1, none repeated, and the counter is never set back (it
\* always equals the number of requests sent so far).
C1_RequestIDsCountUp ==
    /\ requestID = Len(wire)
    /\ \A i \in 1..Len(wire) : wire[i].id = i

\* Three requests were sent, the second call failed and the third still
\* got the next id.
C1_Witness ==
    /\ Len(wire) >= 3
    /\ wire[2].res # "ok"
    /\ wire[3].id = 3

\* C2 as stated: whatever envelope sendRequest returns carries the id of
\* the request just sent, on the direct-JSON path as on the SSE path.
C2_EveryEnvelopeCorrelated ==
    ret.kind = "ok" => ret.id = requestID

\* C2 as amended: an envelope returned from the SSE path carries the id of
\* the request just sent (the direct path returns the decoded envelope
\* without looking at its id).
C2_SSEEnvelopeCorrelated ==
    (ret.kind = "ok" /\ ret.path = "sse") => ret.id = requestID

\* The second request of a client was answered over SSE with an envelope.
C2_Witness ==
    /\ ret.kind = "ok"
    /\ ret.path = "sse"
    /\ requestID = 2

\* The session id last received before the i-th request was sent.
SessionSeenBefore(i) ==
    LET got == {j \in 1..(i - 1) : j <= Len(wire) /\ wire[j].rsession # ""} IN
    IF got = {} THEN "" ELSE wire[Max(got)].rsession

\* C4: every request carries exactly the session id most recently received
\* in a response header: none before the first such response, and a
\* response without the header (or a failed send) leaves the stored id as
\* it was.
C4_SessionHeaderFollowsResponses ==
    /\ \A i \in 1..Len(wire) : wire[i].session = SessionSeenBefore(i)
    /\ sessionID = SessionSeenBefore(Len(wire) + 1)

\* The server issued s1, answered the next request without a header, and
\* rotated to s2: the third request still carried s1, the fourth s2.
C4_Witness ==
    /\ Len(wire) >= 4
    /\ wire[1].session = ""
    /\ wire[1].rsession = "s1"
    /\ wire[2].rsession = ""
    /\ wire[3].session = "s1"
    /\ wire[3].rsession = "s2"
    /\ wire[4].session = "s2"

\* C5: once ensureInitialized has succeeded the flag stays set, a later
\* GetPage or Search goes straight to its tools/call, and no initialize or
\* notifications/initialized request is sent any more.
C5_InitializedIsIdempotent ==
    [][initialized =>
          /\ initialized'
          /\ (cpc = "idle" /\ cpc' # "idle") => cpc' = "tools/call"
          /\ \A i \in (Len(wire) + 1)..Len(wire') : wire'[i].method = "tools/call"
      ]_vars

\* Two calls were made on an initialized client: one initialize request and
\* two tools/call requests were sent.
C5_Witness ==
    /\ initialized
    /\ Cardinality({i \in 1..Len(wire) : wire[i].method = "initialize"}) = 1
    /\ Cardinality({i \in 1..Len(wire) : wire[i].method = "tools/call"}) = 2

\* C6: a client sends at most one initialize request to the server in its
\* lifetime, even when an earlier handshake failed after its initialize
\* request was sent (requests that never left the client are not counted).
C6_AtMostOneInitialize ==
    Cardinality({i \in 1..Len(wire) :
                    wire[i].method = "initialize" /\ wire[i].res # "unsent"}) <= 1

---------------------------------------------------------------------------
(* Claims about the callback listener.                                     *)

CallbackConns == {i \in 1..Len(conns) : conns[i].req.path = "/callback"}

Handled(i) == conns[i].pc \in {"recorded", "done", "panicked"}

StateMismatchRequest(r) ==
    r.path = "/callback" /\ r.error = "" /\ r.state # "" /\ r.state # GeneratedState

C8_DoneClosedOnce ==
    \A i \in 1..Len(conns) : conns[i].pc # "panicked"

\* What one callback request determines on its own: the error Start
\* returns and the code Code() holds.
Verdict(r) ==
    IF r.error # "" THEN [err |-> "OAuth error", code |-> ""]
    ELSE IF r.state # GeneratedState THEN [err |-> "state mismatch", code |-> ""]
    ELSE IF r.code = "" THEN [err |-> "no authorization code received", code |-> ""]
    ELSE [err |-> "nil", code |-> r.code]

\* C9: once a callback request has completed the wait, the recorded code,
\* state and error no longer change, and what Start returns from its wait
\* for the callback and what Code() holds are what that first request
\* determined.
C9_OnlyFirstCallbackCounts ==
    /\ [][doneClosed => UNCHANGED <<sCode, sState, sErr>>]_vars
    /\ [](startRet \notin {"pending", CtxErr} =>
            \E i \in CallbackConns :
                /\ conns[i].pc = "done"
                /\ startRet = Verdict(conns[i].req).err
                /\ sCode = Verdict(conns[i].req).code)

---------------------------------------------------------------------------
(* Claims about parseSSEResponse.                                          *)

RECURSIVE SplitEvents(_, _, _)
\* The events of a stream: the payloads of the data lines between blank
\* lines, joined; an event counts once its blank line has arrived.
SplitEvents(lines, i, cur) ==
    IF i > Len(lines) THEN <<>>
    ELSE IF lines[i].t = "blank"
    THEN (IF cur # <<>> THEN <<cur>> ELSE <<>>) \o SplitEvents(lines, i + 1, <<>>)
    ELSE IF lines[i].t = "data" THEN SplitEvents(lines, i + 1, cur \o lines[i].frag)
    ELSE SplitEvents(lines, i + 1, cur)

MatchingEvents(lines, expectedID) ==
    LET evs == SplitEvents(lines, 1, <<>>) IN
    {k \in 1..Len(evs) : Unmarshal(evs[k]).ok /\ Unmarshal(evs[k]).id = expectedID}

\* C3: when the stream holds a terminated event that parses and carries the
\* expected id, parseSSEResponse returns the first such event, whatever
\* events precede it.
C3_ReturnsFirstMatchingEvent ==
    LET evs == SplitEvents(sseLines, 1, <<>>)
        hit == MatchingEvents(sseLines, sseExpected)
    IN  (sseOut.kind # "none" /\ hit # {})
            => sseOut = RetEnvelope(Unmarshal(evs[Min(hit)]), "sse")

---------------------------------------------------------------------------
(* Claims about Close.                                                     *)

\* C11: Close is idempotent: called after Start has already shut the HTTP
\* server and with it the listener down (or a second time), it returns no
\* error, as a first call on the open socket does, and the socket is
\* released afterwards.
C11_CloseIdempotent ==
    /\ closeErr \in {"none", "nil"}
    /\ closeErr # "none" => listener = "closed"

---------------------------------------------------------------------------
(* Claims about the token refresh.                                         *)

\* the pre-command refresh ended without a refreshed record persisted
RefreshNotDone == rfPc # "prerun" /\ ~(rfWhy = "saved" /\ rfRet = "nil")

\* C12: whatever fails during the pre-command refresh (loading the token,
\* discovery, the refresh POST, a non-200 status, a missing access_token,
\* persisting the refreshed record), PersistentPreRunE returns no error,
\* the stored record is as it was, and the command runs, with the access
\* token stored before.
C12_RefreshIsBestEffort ==
    /\ rfRet = "nil"
    /\ RefreshNotDone => tokenFile = rfOld
    /\ (RefreshNotDone /\ rfPc = "exit") => rfToken = Load(env, configFile, rfOld).token

\* C13: after a successful refresh the persisted record has the access
\* token of the response and the expiry of the response (the time of the
\* refresh plus expires_in when the response has one, else its
\* expires_at), keeps the stored client ID and backend, and has the
\* refresh token of the response if there is one, otherwise the stored
\* refresh token.
C13_RefreshResult ==
    (rfWhy = "saved" /\ rfRet = "nil") =>
        LET old == rfOld.data
            new == rfResp.token
            rec == tokenFile.data
        IN  /\ rfOld.st = "ok"
            /\ tokenFile.st = "ok"
            /\ new.accessToken # ""
            /\ rec.accessToken = new.accessToken
            /\ \E now \in Clock :
                   rec.expiresAt = IF new.expiresIn > 0 THEN now + new.expiresIn
                                   ELSE new.expiresAt
            /\ rec.clientID = old.clientID
            /\ rec.backend = old.backend
            /\ rec.refreshToken = IF new.refreshToken # "" THEN new.refreshToken
                                   ELSE old.refreshToken

\* The stored record had refresh token r1, the response had a new access
\* token and expires_in but no refresh token: the record saved has the new
\* access token, r1 and the new expiry, and the command ran with it.
C13_Witness ==
    /\ rfWhy = "saved"
    /\ rfRet = "nil"
    /\ rfOld.data.accessToken = "old"
    /\ rfOld.data.refreshToken = "r1"
    /\ rfResp.token.refreshToken = ""
    /\ rfResp.token.expiresIn = 5
    /\ tokenFile.data.accessToken = "new"
    /\ tokenFile.data.refreshToken = "r1"
    /\ tokenFile.data.expiresAt = 105
    /\ rfPc = "exit"
    /\ rfToken = "new"

---------------------------------------------------------------------------
(* Claims about discovery and the start of the authentication flow.        *)

\* the i-th request is the fetch of the authorization-server metadata
IsMetadataFetch(i) ==
    httpLog[i].method = "GET" /\ httpLog[i].path = "/.well-known/oauth-authorization-server"

\* ... and it was answered 200 with a document that lacks an endpoint
LacksEndpoint(i) ==
    /\ IsMetadataFetch(i)
    /\ httpLog[i].answer.kind = "http"
    /\ httpLog[i].answer.status = 200
    /\ httpLog[i].answer.json
    /\ \/ httpLog[i].answer.token_endpoint = ""
       \/ httpLog[i].answer.authorization_endpoint = ""

\* C14: when the authorization-server metadata lacks token_endpoint or
\* authorization_endpoint, the flow has ended with the discovery error
\* and nothing came after the fetch: no further request (registration,
\* token), no client registration, no PKCE pair, no listener and no
\* credential written.
C14_MissingEndpointStopsFlow ==
    \A i \in 1..Len(httpLog) :
        LacksEndpoint(i) =>
            /\ Len(httpLog) = i
            /\ afPc = "exit"
            /\ afErr = "failed to discover endpoints"
            /\ authServer = NoAuthServer
            /\ clientReg = NoClientReg
            /\ pkce = NoPKCE
            /\ listener = "none"
            /\ tokenFile = TokenFileAbsent

\* The metadata had an authorization endpoint and a registration
\* endpoint but no token endpoint, and the flow ended.
C14_Witness ==
    /\ Len(httpLog) = 2
    /\ LacksEndpoint(2)
    /\ httpLog[2].answer.authorization_endpoint # ""
    /\ httpLog[2].answer.registration_endpoint # ""
    /\ afPc = "exit"


\* The first fetch, of the protected-resource metadata, was answered 200
\* with a document that lists at least one authorization server.
FirstFetchGood ==
    /\ Len(httpLog) >= 1
    /\ httpLog[1].path = "/.well-known/oauth-protected-resource"
    /\ httpLog[1].answer.kind = "http"
    /\ httpLog[1].answer.status = 200
    /\ httpLog[1].answer.json
    /\ httpLog[1].answer.authorization_servers # <<>>

\* The second fetch was issued and answered 200 with a document that has
\* both endpoints.
SecondFetchGood ==
    /\ Len(httpLog) >= 2
    /\ IsMetadataFetch(2)
    /\ httpLog[2].answer.kind = "http"
    /\ httpLog[2].answer.status = 200
    /\ httpLog[2].answer.json
    /\ httpLog[2].answer.authorization_endpoint # ""
    /\ httpLog[2].answer.token_endpoint # ""

\* C15: once DiscoverEndpoints has returned, the client's
\* authorization-server metadata is set exactly when both fetches were
\* answered 200, the first document listed a server and the second had
\* both endpoints; otherwise the flow ended with the discovery error and
\* the metadata is unset, and when the first step failed no second GET
\* was issued.
C15_DiscoveryContract ==
    afPc # "discover" =>
        /\ authServer.set <=> (FirstFetchGood /\ SecondFetchGood)
        /\ ~FirstFetchGood => Len(httpLog) = 1
        /\ ~(FirstFetchGood /\ SecondFetchGood) =>
               /\ afPc = "exit"
               /\ afErr = "failed to discover endpoints"
               /\ authServer = NoAuthServer
        /\ (FirstFetchGood /\ SecondFetchGood) => afErr # "failed to discover endpoints"

\* The first document was a 200 with an empty server list: discovery
\* failed after one request.
C15_Witness ==
    /\ afPc = "exit"
    /\ afErr = "failed to discover endpoints"
    /\ Len(httpLog) = 1
    /\ httpLog[1].answer.status = 200
    /\ httpLog[1].answer.json
    /\ httpLog[1].answer.authorization_servers = <<>>
    /\ authServer = NoAuthServer


\* the goroutines that are inside sendRequest
InFlight == {g \in Goroutines : gor[g].pc # "idle"}

\* C16: whatever the interleaving of the calls, the ids handed out are
\* pairwise different (over all calls made so far and over the calls in
\* progress) and they are exactly 1..requestID: none is skipped or lost.
C16_AtomicRequestID ==
    /\ \A i, j \in 1..Len(issued) : i # j => issued[i] # issued[j]
    /\ {issued[i] : i \in 1..Len(issued)} = 1..requestID
    /\ \A g \in InFlight : gor[g].reqID \in 1..requestID
    /\ \A g, h \in InFlight : g # h => gor[g].reqID # gor[h].reqID

\* Two calls are in progress at once, the one that holds the later id
\* being further on (it has its answer) than the one with the earlier id,
\* and a third call has already been made.
C16_Witness ==
    /\ Len(issued) >= 3
    /\ \E g, h \in InFlight :
         /\ gor[g].reqID > gor[h].reqID
         /\ gor[g].pc = "store"
         /\ gor[h].pc = "check"

\* goroutine g is about to write c.sessionID
AtWrite(g) == gor[g].pc = "store"

\* goroutine g is about to read c.sessionID
AtRead(g) == gor[g].pc \in {"check", "set"}

\* C17: no two calls are at an access of c.sessionID at the same moment
\* when one of the accesses is a write.
C17_SessionAccessSerialized ==
    \A g, h \in Goroutines :
        g # h => ~(AtWrite(g) /\ (AtRead(h) \/ AtWrite(h)))


\* the characters A-Z a-z 0-9 - _ as byte values
URLSafe == (65..90) \cup (97..122) \cup (48..57) \cup {45, 95}

\* the six bits a character of the URL-safe alphabet stands for
Sextet(c) ==
    IF c \in 65..90 THEN c - 65 ELSE IF c \in 97..122 THEN c - 71
    ELSE IF c \in 48..57 THEN c + 4 ELSE IF c = 45 THEN 62 ELSE 63

\* the bytes an unpadded base64 text s stands for
Decoded(s) ==
    [i \in 1..((Len(s) * 6) \div 8) |->
        LET bit == 8 * (i - 1)
            k   == bit \div 6 + 1
            off == bit % 6
        IN  ((Sextet(s[k]) * 64 + Sextet(s[k + 1])) \div (2 ^ (4 - off))) % 256]

\* s is the unpadded base64url encoding of the 32 bytes b: 43 characters
\* of the URL-safe alphabet that decode to b, the two spare bits zero
IsRawURLEncodingOf(s, b) ==
    /\ Len(s) = 43
    /\ \A k \in 1..Len(s) : s[k] \in URLSafe
    /\ Sextet(s[43]) % 4 = 0
    /\ Len(b) = 32
    /\ Decoded(s) = b

\* C18: every PKCE pair GeneratePKCE stored has a verifier that is the
\* unpadded base64url encoding of the 32 random bytes (43 characters of
\* the URL-safe alphabet, within 43..128) and a challenge that is the
\* unpadded base64url encoding of the SHA-256 digest of the verifier's
\* characters.
C18_PKCEPair ==
    pkce.set =>
        /\ IsRawURLEncodingOf(pkce.codeVerifier, random.bytes)
        /\ Len(pkce.codeVerifier) \in 43..128
        /\ IsRawURLEncodingOf(pkce.codeChallenge, Sum256(pkce.codeVerifier))

\* A pair was generated from random bytes that are not all the same, and
\* the verifier uses a character outside the letters and digits.
C18_Witness ==
    /\ pkce.set
    /\ afPc = "bind"
    /\ random.bytes[1] # random.bytes[2]
    /\ \E k \in 1..Len(pkce.codeVerifier) : pkce.codeVerifier[k] \in {45, 95}


\* C19: every connection the callback listener accepted arrived on the
\* loopback interface.
C19_LoopbackOnly ==
    \A i \in 1..Len(conns) : conns[i].req.iface = "lo"


\* C20: whenever Load returned a configuration, its token is the one of
\* the environment if GOTION_TOKEN or NOTION_TOKEN is set (GOTION_TOKEN
\* first), whatever the files hold; otherwise the one of the config file
\* if it has one; and the token file's only when neither supplies one.
C20_TokenPriority ==
    (cfgOut.err = "nil") =>
        /\ env.GOTION_TOKEN # "" => cfgOut.token = env.GOTION_TOKEN
        /\ (env.GOTION_TOKEN = "" /\ env.NOTION_TOKEN # "") =>
               cfgOut.token = env.NOTION_TOKEN
        /\ (env.GOTION_TOKEN = "" /\ env.NOTION_TOKEN = ""
                /\ configFile.data.token # "") =>
               cfgOut.token = configFile.data.token


\* the handler of connection i ran in this step
HandlerRan(i) == conns[i].pc = "accepted" /\ conns'[i].pc # "accepted"

\* C21: whenever the handler runs on a /callback request, what it
\* records and answers follows the order error, state, code: with an
\* error parameter it is the OAuth error whatever state and code are;
\* without one and with a state that is not the expected one it is the
\* state mismatch even if a code is there; it is the missing code exactly
\* when there is no error parameter, the state is the expected one and
\* the code is empty.
C21_CheckOrder ==
    [][\A i \in 1..Len(conns) :
         (HandlerRan(i) /\ conns[i].req.path = "/callback") =>
            LET r == conns[i].req IN
            /\ r.error # "" =>
                  sErr' = "OAuth error" /\ conns'[i].resp = "failed: error"
            /\ (r.error = "" /\ r.state # GeneratedState) =>
                  sErr' = "state mismatch" /\ conns'[i].resp = "failed: state mismatch"
            /\ conns'[i].resp = "failed: no code" <=>
                  (r.error = "" /\ r.state = GeneratedState /\ r.code = "")
            /\ conns'[i].resp = "failed: no code" => sErr' = "no authorization code received"
            /\ (r.error # "" \/ r.state # GeneratedState \/ r.code = "") =>
                  sCode' = sCode /\ sState' = sState]_vars

\* A request with an error parameter, no state and no code was answered
\* as denied, and a request with a foreign state and a code as a state
\* mismatch.
C21_Witness ==
    /\ \E i \in 1..Len(conns) :
         /\ conns[i].req.error # "" /\ conns[i].req.state = "" /\ conns[i].req.code = ""
         /\ conns[i].resp = "failed: error"
    /\ \E i \in 1..Len(conns) :
         /\ conns[i].req.error = "" /\ conns[i].req.state = "wrong"
         /\ conns[i].req.code = "c1"
         /\ conns[i].resp = "failed: state mismatch"


---------------------------------------------------------------------------
(* Claims about malformed events and the end of the stream.                *)

\* the terminated events of the stream whose data is not an envelope
MalformedEvents(lines) ==
    LET evs == SplitEvents(lines, 1, <<>>) IN
    {k \in 1..Len(evs) : ~Unmarshal(evs[k]).ok}

\* C22: when a terminated event whose data does not parse is followed by a
\* terminated event that parses and carries the expected id,
\* parseSSEResponse returns the first event with the expected id, on its
\* own: nothing of the malformed event is part of what is returned.
C22_MalformedNotFatal ==
    LET evs == SplitEvents(sseLines, 1, <<>>)
        hit == MatchingEvents(sseLines, sseExpected)
        bad == MalformedEvents(sseLines)
    IN  (sseOut.kind # "none" /\ hit # {} /\ \E k \in bad : k < Min(hit))
            => sseOut = RetEnvelope(Unmarshal(evs[Min(hit)]), "sse")


\* the scanner read the stream to its end
ReadToEnd(lines) == \A i \in 1..Len(lines) : ~lines[i].long

\* C23: when the stream was read to its end and holds no terminated event
\* that parses and carries the expected id, the result is the
\* no-response error naming the expected id; and whenever there is no
\* such event, no envelope is returned.
C23_NoResponseAtEnd ==
    (sseOut.kind # "none" /\ MatchingEvents(sseLines, sseExpected) = {}) =>
        /\ sseOut.kind = "err"
        /\ ReadToEnd(sseLines) =>
              /\ sseOut.why = "no response received"
              /\ sseOut.id = sseExpected

\* The stream held a terminated event with another id and an event with
\* the expected id that no blank line terminates; the call failed.
C23_Witness ==
    /\ Len(sseLines) = 3
    /\ sseLines[1] = DataLine(Env(2, FALSE))
    /\ sseLines[2] = BlankLine
    /\ sseLines[3] = DataLine(Env(1, FALSE))
    /\ sseExpected = 1
    /\ sseOut.why = "no response received"
    /\ sseOut.id = 1


---------------------------------------------------------------------------
(* Claims about the number and the order of the requests of one call.      *)

\* the place of a position in the course of one GetPage or Search call
Rank(pc) ==
    IF pc = "initialize" THEN 1 ELSE IF pc = "notifications/initialized" THEN 2
    ELSE IF pc = "tools/call" THEN 3 ELSE 4

\* C24: no step sends more than one POST; entering GetPage or Search
\* sends none and goes to tools/call directly on an initialized client;
\* every sendRequest sends exactly one POST, of the method the call is
\* at, and then the call either moves on to its next request or returns:
\* it never stays at, or goes back to, a request it has made, and a
\* sendRequest that returned an error ends the call. Hence at most three
\* POSTs per call, and one on an initialized client.
C24_NoRetry ==
    [][/\ cpc = "idle" =>
            /\ wire' = wire
            /\ cpc' = IF initialized THEN "tools/call" ELSE "initialize"
       /\ cpc # "idle" =>
            /\ Len(wire') = Len(wire) + 1
            /\ SubSeq(wire', 1, Len(wire)) = wire
            /\ wire'[Len(wire')].method = cpc
            /\ Rank(IF cpc' = "idle" THEN "return" ELSE cpc') \in {Rank(cpc) + 1, 4}
            /\ ret'.kind = "err" => cpc' = "idle"]_mcpVars

\* A first call ended with its initialize request failing to be sent; a
\* second call then made its three requests.
C24_Witness ==
    /\ cpc = "idle"
    /\ Len(wire) = 4
    /\ wire[1].method = "initialize" /\ wire[1].res = "unsent"
    /\ wire[2].method = "initialize"
    /\ wire[3].method = "notifications/initialized"
    /\ wire[4].method = "tools/call"


---------------------------------------------------------------------------
(* Claims about tool-level and RPC-level failures.                         *)

\* callTool has returned and its sendRequest had returned an envelope
ToolReturned == toolOut # NoToolReturn /\ toolIn.sendErr = "nil"

\* C25: when the envelope has an error member, callTool returns the tool
\* error and no result, with the message of the error object or the error
\* string; when it has none and its result is a tool result with isError,
\* callTool returns an error and no result, the message being the text of
\* the first content block, or "unknown error" if there is no block.
C25_ToolFailure ==
    ToolReturned =>
        /\ toolIn.error # Absent =>
              /\ toolOut.prefix = "MCP tool error"
              /\ toolOut.result = Absent
              /\ toolIn.error.kind \in {"object", "string"} =>
                    toolOut.msg = toolIn.error.text
        /\ (toolIn.error = Absent /\ toolIn.result.kind = "object"
                /\ toolIn.result.isError) =>
              /\ toolOut.prefix = "MCP error"
              /\ toolOut.result = Absent
              /\ toolIn.result.content # <<>> =>
                    toolOut.msg = Head(toolIn.result.content)
              /\ toolIn.result.content = <<>> => toolOut.msg = "unknown error"

\* A tool result with isError and two content blocks of different texts
\* was returned as an error with the first text.
C25_Witness ==
    /\ ToolReturned
    /\ toolIn.error = Absent
    /\ toolIn.result.isError
    /\ Len(toolIn.result.content) = 2
    /\ toolIn.result.content[1] # toolIn.result.content[2]
    /\ toolOut.prefix = "MCP error"
    /\ toolOut.msg = "page not found"


\* C26: when the token response carries expires_in, the record that comes
\* out of the call has expiresAt = the time of the call + expires_in, for
\* every value of expires_in, 0 included
C26_ExpiresAtFromExpiresIn ==
    (rfWhy = "saved" /\ rfRet = "nil" /\ rfResp.token.hasExpiresIn) =>
        \E now \in Clock : tokenFile.data.expiresAt = now + rfResp.token.expiresIn


\* the registration requests and the code exchanges of the run
Registrations ==
    {i \in 1..Len(httpLog) : httpLog[i].form.grant_type = "authorization_code refresh_token"}

CodeExchanges ==
    {i \in 1..Len(httpLog) : httpLog[i].form.grant_type = "authorization_code"}

\* the steps of runMCPAuth that are over, and over with success
DiscoveryDone    == authServer.set
RegistrationDone == clientReg.set
PKCEDone         == pkce.set
BindDone         == listener # "none"
URLShown         == afPc \in {"start", "select", "shutdownCtx", "shutdownDone", "started",
                              "exchange"}
                    \/ serving \/ startRet # "pending"
WaitDone         == startRet = "nil" /\ sCode # ""

\* Each step of the run has started only after every earlier one
\* succeeded: discovery (two GETs), registration, PKCE, bind, the
\* authorization URL, the wait for the callback, the code exchange and
\* the save.
StepsInOrder ==
    /\ afPc \notin {"discover", "exit"} => DiscoveryDone
    /\ afPc \notin {"discover", "register", "exit"} => RegistrationDone
    /\ afPc \notin {"discover", "register", "pkce", "exit"} => PKCEDone
    /\ afPc \notin {"discover", "register", "pkce", "bind", "exit"} => BindDone
    /\ \A i \in Registrations : DiscoveryDone /\ i = 3
    /\ RegistrationDone =>
           /\ DiscoveryDone
           /\ Registrations = {3}
           /\ httpLog[3].answer.client_id = clientReg.client_id
    /\ PKCEDone => RegistrationDone
    /\ BindDone => PKCEDone
    /\ URLShown => BindDone
    /\ (serving \/ conns # <<>>) => URLShown
    /\ WaitDone => serving
    /\ \A i \in CodeExchanges :
           /\ WaitDone
           /\ i = 4 /\ Len(httpLog) = 4
           /\ httpLog[i].form.credential = sCode
           /\ httpLog[i].form.client_id = clientReg.client_id
           /\ afPc = "exit"
    /\ tokenFile # TokenFileAbsent =>
           /\ CodeExchanges = {4}
           /\ httpLog[4].answer.token.accessToken # ""
           /\ afErr \in {"nil", "failed to save token"}

\* a run is past discovery when DiscoverEndpoints returned nil and
\* RegisterClient has returned
PastDiscovery == DiscoveryDone /\ afPc # "register"

\* C27 as stated: the steps come in order, each after the success of the
\* earlier ones, and every run that got past discovery sent exactly one
\* registration request
C27_OneRegistrationPerRun ==
    /\ StepsInOrder
    /\ PastDiscovery => Cardinality(Registrations) = 1

\* C27, amended: the steps come in order, each after the success of the
\* earlier ones; a run never sends more than one registration request,
\* a run past discovery whose metadata names a registration endpoint
\* sent exactly one, and a run whose metadata names none sent none and
\* ended with the registration error
C27_FlowOrder ==
    /\ StepsInOrder
    /\ Cardinality(Registrations) <= 1
    /\ (PastDiscovery /\ authServer.registration_endpoint # "") =>
           Cardinality(Registrations) = 1
    /\ (PastDiscovery /\ authServer.registration_endpoint = "") =>
           /\ Registrations = {}
           /\ afPc = "exit"
           /\ afErr = "failed to register client"
           /\ ~RegistrationDone /\ ~PKCEDone /\ ~BindDone
           /\ tokenFile = TokenFileAbsent

\* A whole run: two discovery GETs, one registration, one code exchange,
\* and the credential saved.
C27_Witness ==
    /\ afPc = "exit"
    /\ afErr = "nil"
    /\ Len(httpLog) = 4
    /\ Registrations = {3}
    /\ CodeExchanges = {4}
    /\ tokenFile # TokenFileAbsent
    /\ closeErr # "none"


\* the gate of the pre-command refresh, read off the command, the files
\* and the environment as they were when the command started
RefreshDue ==
    /\ cmdName \notin {"auth", "config", "version", "help"}
    /\ LoadToken(env, rfOld).err = "nil"
    /\ rfNeeds
    /\ Load(env, configFile, rfOld).err = "nil"
    /\ Load(env, configFile, rfOld).backend = "mcp"

\* C28: once the pre-command gate has run, requests were sent (the
\* discovery, then possibly the token POST) only if the token file
\* loaded, the token was judged in need of refresh, the configured
\* backend is mcp and the command is none of auth, config, version and
\* help; in every other case nothing was sent, token.json is as it was
\* and the gate returned nil.
C28_RefreshGated ==
    rfPc # "prerun" =>
        /\ httpLog # <<>> <=> RefreshDue
        /\ tokenFile # rfOld => RefreshDue
        /\ ~RefreshDue => rfRet = "nil"
        /\ \A i \in 1..Len(httpLog) :
               \/ httpLog[i].method = "GET"
               \/ i = 3 /\ httpLog[i].form.grant_type = "refresh_token"

\* A list command with a stale MCP credential: discovery and the token
\* POST were sent and the credential was rewritten.
C28_Witness ==
    /\ rfPc # "prerun"
    /\ cmdName = "list"
    /\ RefreshDue
    /\ Len(httpLog) = 3
    /\ tokenFile # rfOld


---------------------------------------------------------------------------
(* Claims about the session ID and the handshake.                          *)

\* request i was sent under a session ID and answered with another one
Rotated(i) ==
    /\ wire[i].res # "unsent"
    /\ wire[i].session # ""
    /\ wire[i].rsession \notin {"", wire[i].session}

\* the handshake was over when request i had been answered
HandshakeOverAt(i) ==
    \E j \in 1..i : wire[j].method = "notifications/initialized" /\ wire[j].res = "ok"

\* C29: a response that carries a session ID other than the one the
\* request was sent under changes the stored session ID and nothing else:
\* the ID is the one the next request carries, the counter goes on from
\* where it was, the initialized flag stays as the handshake left it, and
\* once the handshake is over every later request is a tools/call.
C29_RotationIsSilent ==
    /\ initialized <=> (wire # <<>> /\ HandshakeOverAt(Len(wire)))
    /\ \A i \in 1..Len(wire) :
         Rotated(i) =>
            /\ IF i < Len(wire) THEN wire[i + 1].session = wire[i].rsession
                                ELSE sessionID = wire[i].rsession
            /\ IF i < Len(wire) THEN wire[i + 1].id = wire[i].id + 1
                                ELSE requestID = wire[i].id
            /\ HandshakeOverAt(i) =>
                  /\ initialized
                  /\ \A k \in (i + 1)..Len(wire) : wire[k].method = "tools/call"
                  /\ cpc \in {"idle", "tools/call"}
            /\ (wire[i].method = "initialize" /\ i < Len(wire) /\ wire[i].res = "ok") =>
                  wire[i + 1].method \in {"notifications/initialized", "initialize"}

\* The answer to the first tools/call of an initialized client carried a
\* new session ID; the next call sent one request, a tools/call under the
\* new ID.
C29_Witness ==
    /\ Len(wire) = 4
    /\ wire[2].method = "notifications/initialized" /\ wire[2].res = "ok"
    /\ wire[3].method = "tools/call"
    /\ wire[3].session = "s1" /\ wire[3].rsession = "s2"
    /\ wire[4].method = "tools/call"
    /\ wire[4].session = "s2"
    /\ initialized


\* requests j - 1 and j are a handshake that succeeded
HandshakeAt(j) ==
    /\ j >= 2
    /\ wire[j - 1].method = "initialize" /\ wire[j - 1].res = "ok"
    /\ wire[j].method = "notifications/initialized" /\ wire[j].res = "ok"

LastSent == wire[Len(wire)]

\* C30: a tools/call is sent only on a client whose handshake succeeded
\* before: an initialize answered by an envelope without an RPC error,
\* then a notifications/initialized that returned no error. A call whose
\* initialize or notifications/initialized fails returns there, with the
\* failure, sends no tools/call and leaves the client uninitialized, so
\* that the next call starts with initialize again.
C30_HandshakeBeforeUse ==
    /\ cpc = "notifications/initialized" =>
           /\ LastSent.method = "initialize"
           /\ ret.kind = "ok" /\ ~ret.rpcErr
           /\ ~initialized
    /\ cpc = "tools/call" =>
           /\ initialized
           /\ wire # <<>>
           /\ LastSent.method = "notifications/initialized" => ret.kind = "ok"
    /\ initialized => \E j \in 1..Len(wire) : HandshakeAt(j)
    /\ \A k \in 1..Len(wire) :
           wire[k].method = "tools/call" => \E j \in 1..(k - 1) : HandshakeAt(j)
    /\ (cpc = "idle" /\ wire # <<>> /\ LastSent.method = "initialize") =>
           /\ ret.kind = "err" \/ ret.rpcErr
           /\ ~initialized
    /\ (cpc = "idle" /\ wire # <<>> /\ LastSent.method = "notifications/initialized") =>
           /\ ret.kind = "err"
           /\ ~initialized
    /\ \A i \in 1..(Len(wire) - 1) :
           (wire[i].method # "tools/call" /\ wire[i].res # "ok") =>
               wire[i + 1].method = "initialize"

\* A first call ended at an initialize that was answered with an RPC
\* error; the second call did the whole handshake and sent its tools/call.
C30_Witness ==
    /\ Len(wire) = 4
    /\ wire[1].method = "initialize" /\ wire[1].res = "ok"
    /\ wire[2].method = "initialize"
    /\ HandshakeAt(3)
    /\ wire[4].method = "tools/call"
    /\ initialized


---------------------------------------------------------------------------
(* Claims about what Start accepts and what the flows persist.             *)

\* a request to /callback with no error parameter, a code, and the state
\* that Start was given
WellFormed(r) ==
    /\ r.path = "/callback"
    /\ r.error = ""
    /\ r.code # ""
    /\ GeneratedState # "" => r.state = GeneratedState

\* C31: Start has returned nil with a code recorded only if a handler ran
\* for a request to /callback without error parameter, with that code and
\* with the expected state; no other request is answered with the success
\* page or recorded, and a request with a code and no state parameter is
\* answered "state mismatch" and recorded as that failure.
C31_SuccessNeedsWellFormed ==
    /\ (startRet = "nil" /\ sCode # "") =>
           \E i \in 1..Len(conns) :
               /\ WellFormed(conns[i].req)
               /\ conns[i].req.code = sCode
               /\ conns[i].resp = "success"
    /\ sCode # "" =>
           \E i \in 1..Len(conns) : WellFormed(conns[i].req) /\ conns[i].req.code = sCode
    /\ \A i \in 1..Len(conns) :
           /\ conns[i].resp = "success" => WellFormed(conns[i].req)
           /\ (conns[i].pc # "accepted" /\ conns[i].req.path = "/callback"
                 /\ conns[i].req.error = "" /\ conns[i].req.code # ""
                 /\ conns[i].req.state = "") =>
                  /\ conns[i].resp = "failed: state mismatch"
                  /\ sErr # "nil"
                  /\ startRet # "nil"

\* Start returned nil after a request with the expected state and a code;
\* the flow went on to the exchange.
C31_Witness ==
    /\ startRet = "nil"
    /\ sCode = "c1"
    /\ afPc = "exchange"
    /\ \E i \in 1..Len(conns) : WellFormed(conns[i].req) /\ conns[i].resp = "success"


\* request i is a code exchange that the token endpoint answered 200 with
\* a document that has an access token
ExchangeGranted(i) ==
    /\ httpLog[i].form.grant_type = "authorization_code"
    /\ httpLog[i].answer.kind = "http"
    /\ httpLog[i].answer.status = 200
    /\ httpLog[i].answer.json
    /\ httpLog[i].answer.token.accessToken # ""

\* C32: in an authentication run, token.json is written only after a code
\* exchange that yielded a non-empty access token (and, the write being
\* the last step of the run, at most once); a run that ended with any
\* error other than that of the save left token.json as it was.
C32_SavedOnlyAfterGrant ==
    /\ tokenFile # TokenFileAbsent => \E i \in 1..Len(httpLog) : ExchangeGranted(i)
    /\ (afPc = "exit" /\ afErr \notin {"nil", "failed to save token"}) =>
           tokenFile = TokenFileAbsent
    /\ tokenFile # TokenFileAbsent => afPc = "exit"


\* the refresh exchange went through: discovery (two GETs), then the
\* token POST answered 200 with a readable JSON document that has an
\* access token
RefreshGranted ==
    /\ Len(httpLog) = 3
    /\ httpLog[3].form.grant_type = "refresh_token"
    /\ httpLog[3].answer.kind = "http"
    /\ httpLog[3].answer.readable
    /\ httpLog[3].answer.status = 200
    /\ httpLog[3].answer.json
    /\ httpLog[3].answer.token.accessToken # ""

\* C33: when the refresh was started and did not go through (discovery
\* failed, or the token POST met a transport error, a status other than
\* 200, an undecodable body or a document without access_token),
\* token.json is exactly what it was when the command started, and the
\* command goes on.
C33_FailedRefreshWritesNothing ==
    (rfPc # "prerun" /\ httpLog # <<>> /\ ~RefreshGranted) =>
        /\ tokenFile = rfOld
        /\ rfRet = "nil"
        /\ rfPc = "exit" => rfToken = Load(env, configFile, rfOld).token

\* The token endpoint answered the refresh POST with 200 and a document
\* without access_token; the stored credential is untouched.
C33_Witness ==
    /\ rfPc = "exit"
    /\ Len(httpLog) = 3
    /\ httpLog[3].answer.status = 200
    /\ httpLog[3].answer.json
    /\ httpLog[3].answer.token.accessToken = ""
    /\ rfOld.st = "ok"
    /\ tokenFile = rfOld


\* C34: the command's RunE loads its configuration only after the gate
\* has returned; when the refresh went through and the new record was
\* written, and neither the environment nor config.toml names a token,
\* the command runs with the access token of the refresh response and
\* not with the one that was stored.
C34_RefreshBeforeUse ==
    /\ rfPc = "prerun" => rfToken = ""
    /\ (rfPc = "exit" /\ rfRet = "nil" /\ RefreshGranted /\ tokenFile.st = "ok"
          /\ env.GOTION_TOKEN = "" /\ env.NOTION_TOKEN = ""
          /\ configFile.data.token = "") =>
           /\ rfToken = httpLog[3].answer.token.accessToken
           /\ rfToken # rfOld.data.accessToken
           /\ tokenFile.data.accessToken = rfToken

\* A list command whose stale credential was refreshed ran with the new
\* access token.
C34_Witness ==
    /\ rfPc = "exit"
    /\ cmdName = "list"
    /\ RefreshGranted
    /\ rfOld.data.accessToken = "old"
    /\ rfToken = "new"


---------------------------------------------------------------------------
(* Claims about the HTTP status and about events without an id.            *)

\* what a response yields when only its Content-Type and body are read
BodyOutcome(r, reqID) ==
    IF r.kind = "sse" THEN parseSSEResponse(r.lines, reqID) ELSE DecodeJSON(r.body)

\* C35: the HTTP status has no part in the outcome of sendRequest. Under
\* whatever status a response came, the value returned is the one its
\* Content-Type and body give, a non-empty Mcp-Session-Id is stored, and
\* under a status outside 2xx an envelope without error member still
\* comes back as an ordinary response.
C35_StatusIgnored ==
    (wire # <<>> /\ wire[1].res # "unsent") =>
        /\ \E r \in {q \in Responses(wire[1].id) : q.kind # "neterr"} :
               /\ r.session = wire[1].rsession
               /\ ret = BodyOutcome(r, wire[1].id)
        /\ wire[1].rsession # "" => sessionID = wire[1].rsession
        /\ wire[1].rsession = "" => sessionID = wire[1].session

\* A response with status 500, a new session ID and an envelope that has
\* no error member: the envelope was returned and the session ID stored.
C35_Witness ==
    /\ wire # <<>>
    /\ wire[1].status = 500
    /\ wire[1].session = "s1" /\ wire[1].rsession = "s2"
    /\ ret.kind = "ok" /\ ~ret.rpcErr
    /\ ret.id = wire[1].id
    /\ sessionID = "s2"


\* the terminated events of the stream whose data is an object without
\* an id member (a notification or a request of the server)
IdLessEvents(lines) ==
    LET evs == SplitEvents(lines, 1, <<>>) IN
    {k \in 1..Len(evs) : evs[k] = <<Open, Close>>}

\* C36: the ids a client asks for start at 1, an event without id decodes
\* to id 0, so such an event is never the one returned: what is returned
\* carries the expected id and comes from an event that has an id member,
\* and an event without id does not end the scan, the first event with
\* the expected id behind it being returned as if it were not there.
C36_IdLessEventSkipped ==
    LET evs  == SplitEvents(sseLines, 1, <<>>)
        hit  == MatchingEvents(sseLines, sseExpected)
        bare == IdLessEvents(sseLines)
    IN  /\ sseExpected >= 1
        /\ \A k \in bare : Unmarshal(evs[k]).ok /\ Unmarshal(evs[k]).id = 0
        /\ sseOut.kind = "ok" =>
              /\ sseOut.id = sseExpected
              /\ sseOut.id # 0
              /\ hit # {}
              /\ Min(hit) \notin bare
              /\ sseOut = RetEnvelope(Unmarshal(evs[Min(hit)]), "sse")
        /\ (sseOut.kind # "none" /\ ReadToEnd(sseLines) /\ hit # {}) =>
              sseOut = RetEnvelope(Unmarshal(evs[Min(hit)]), "sse")

\* An event without id came first and was passed over; the event with the
\* expected id behind it was returned.
C36_Witness ==
    /\ sseLines = <<DataLine(<<Open, Close>>), BlankLine, DataLine(Env(1, FALSE)), BlankLine>>
    /\ sseExpected = 1
    /\ sseOut.kind = "ok"
    /\ sseOut.id = 1


RECURSIVE PendingData(_, _, _)
\* the payload of the data lines behind the last blank line of the stream:
\* what is buffered, and not yet evaluated, when the stream ends
PendingData(lines, i, cur) ==
    IF i > Len(lines) THEN cur
    ELSE IF lines[i].t = "blank" THEN PendingData(lines, i + 1, <<>>)
    ELSE IF lines[i].t = "data" THEN PendingData(lines, i + 1, cur \o lines[i].frag)
    ELSE PendingData(lines, i + 1, cur)

\* the stream ends on the data of an event with the expected id that no
\* blank line terminates
EndsOnMatch(lines, expectedID) ==
    LET pend == PendingData(lines, 1, <<>>) IN
    /\ Len(pend) > 0
    /\ Unmarshal(pend).ok
    /\ Unmarshal(pend).id = expectedID

\* C37: an event is evaluated only at the blank line behind its data: when
\* the stream, read to its end, stops on the data lines of an event with
\* the expected id and holds no terminated event with that id, that event
\* is not returned and the result is the no-response error naming the
\* expected id; an envelope that is returned is never the pending event.
C37_UnterminatedNotReturned ==
    LET evs == SplitEvents(sseLines, 1, <<>>)
        hit == MatchingEvents(sseLines, sseExpected)
    IN  (sseOut.kind # "none" /\ EndsOnMatch(sseLines, sseExpected)) =>
           /\ (hit = {} /\ ReadToEnd(sseLines)) =>
                 /\ sseOut.kind = "err"
                 /\ sseOut.why = "no response received"
                 /\ sseOut.id = sseExpected
           /\ hit = {} => sseOut.kind = "err"
           /\ sseOut.kind = "ok" =>
                 sseOut = RetEnvelope(Unmarshal(evs[Min(hit)]), "sse")

\* The whole stream is the data line of the event with the expected id;
\* no blank line follows and the call failed.
C37_Witness ==
    /\ sseLines = <<DataLine(Env(1, FALSE))>>
    /\ sseExpected = 1
    /\ EndsOnMatch(sseLines, sseExpected)
    /\ sseOut.kind = "err"
    /\ sseOut.why = "no response received"


\* the fields of the client and the requests it has sent
ClientState == <<protectedResource, authServer, clientReg, pkce, httpLog>>

\* the three steps GetAuthURL and ExchangeCode depend on
Prerequisites == {"DiscoverEndpoints", "RegisterClient", "GeneratePKCE"}

\* C38: a call of RegisterClient made before any DiscoverEndpoints has
\* returned nil, or while the discovered metadata has no registration
\* endpoint, and a call of GetAuthURL or ExchangeCode made before
\* DiscoverEndpoints, RegisterClient and GeneratePKCE have all returned
\* nil, returns an error, sends no request and leaves the fields of the
\* client as they were.
C38_GuardsKeepOrder ==
    [][LET early ==
              \/ /\ oaCall'.op = "RegisterClient"
                 /\ \/ "DiscoverEndpoints" \notin oaCall.done
                    \/ authServer.registration_endpoint = ""
              \/ /\ oaCall'.op \in {"GetAuthURL", "ExchangeCode"}
                 /\ ~(Prerequisites \subseteq oaCall.done)
       IN  early => /\ oaCall'.err # "nil"
                    /\ ClientState' = ClientState
                    /\ oaCall'.done = oaCall.done]_vars

\* Discovery gave metadata without a registration endpoint and
\* RegisterClient was refused; no third request was sent.
C38_Witness ==
    /\ oaCall.op = "RegisterClient"
    /\ oaCall.err = "registration endpoint not available"
    /\ oaCall.done = {"DiscoverEndpoints"}
    /\ Len(httpLog) = 2


\* connection i carries a request to the callback path that its handler
\* has looked at
CallbackSeen(i) == conns[i].req.path = "/callback" /\ conns[i].pc # "accepted"

\* C39: the handler of a request to a path other than /callback answers
\* 404, goes no further and leaves s.code, s.state, s.err and s.done as
\* they are; such requests never end the wait: s.done is closed only after
\* the handler of a /callback request ran, and Start has returned only
\* after that or after the context ended.
C39_OtherPathIgnored ==
    /\ [](/\ doneClosed => \E i \in 1..Len(conns) : CallbackSeen(i)
          /\ startRet # "pending" =>
                ctxDone \/ \E i \in 1..Len(conns) : CallbackSeen(i)
          /\ \A i \in 1..Len(conns) :
                (conns[i].req.path # "/callback" /\ conns[i].pc # "accepted") =>
                    conns[i].resp = "404" /\ conns[i].pc = "done")
    /\ [][\A i \in 1..Len(conns) :
            (HandlerRan(i) /\ conns[i].req.path # "/callback") =>
                /\ conns'[i].resp = "404"
                /\ conns'[i].pc = "done"
                /\ <<sCode, sState, sErr, doneClosed, startRet, afPc, listener>>'
                       = <<sCode, sState, sErr, doneClosed, startRet, afPc, listener>>]_vars

\* A request to /favicon.ico was answered 404 while Start waits: nothing
\* is recorded, s.done is open and Start has not returned.
C39_Witness ==
    /\ afPc = "select"
    /\ Len(conns) = 1
    /\ conns[1].req = OtherRequest
    /\ conns[1].resp = "404"
    /\ conns[1].pc = "done"
    /\ sCode = "" /\ sErr = "nil"
    /\ ~doneClosed /\ ~ctxDone
    /\ startRet = "pending"


\* C40: the authorization URL is shown only while the listening socket is
\* open, and from then on the port of its redirect_uri is the port the
\* listener was bound to, also when the port asked for was 0 and the
\* system chose one.
C40_RedirectNamesBoundPort ==
    /\ [](authURL # NoURL =>
             /\ listener # "none"
             /\ boundPort # 0
             /\ authURL.redirect_uri.port = boundPort
             /\ opts.port # 0 => authURL.redirect_uri.port = ListenPort(opts))
    /\ [][authURL' # authURL =>
             /\ listener = "open" /\ listener' = "open"
             /\ boundPort' = boundPort
             /\ authURL'.redirect_uri.port = boundPort]_vars

\* gotion auth --port 0: the system chose the port, and the URL shown
\* sends the browser to that port.
C40_Witness ==
    /\ ~opts.mcp
    /\ opts.port = 0
    /\ listener = "open"
    /\ boundPort \in EphemeralPorts
    /\ authURL.redirect_uri = RedirectURI("localhost", boundPort)
    /\ authURL.state = GeneratedState

=============================================================================
